---- MODULE Spec2Model ----
(***************************************************************************)
(* Three snake engines of the repository, modelled side by side:           *)
(*   app_  the discrete, timer-driven engine (src/unnamed/part_000,        *)
(*         "app.js": countdown, pause, obstacles, wrap-around grid)        *)
(*   cq_   the cell-quantized continuous engine (src/unnamed/part_001)     *)
(*   g_    the pixel-continuous engine (src/game.js)                       *)
(* The variable `variant` says which engine a behaviour runs; every        *)
(* action of an engine leaves the other engines' variables unchanged.      *)
(***************************************************************************)
EXTENDS Integers, Sequences, FiniteSets, TLC

VARIABLES
  variant,
  \* ---- part_000 (app.js) ----
  app_snake, app_dir, app_nextDir, app_apple, app_obstacles, app_score,
  app_highScore, app_gameInterval, app_running, app_paused,
  app_countdownTimer, app_leakedTimers, app_countdownValue, app_allowInput,
  app_modalShown, app_startDisabled,
  \* part_000: the value of the difficulty select; the variable tickRate
  app_difficulty, app_tickRate,
  \* part_000: the variables width and rows (the grid, in cells)
  app_width, app_rows,
  \* part_000: the localStorage item 'snake_high'; whether setItem throws
  app_storedHigh, app_storageFails,
  \* part_000: localStorage's item 'snake_leaderboard'
  app_board,
  \* history: the scores of the name submissions so far, in order
  app_submitted,
  \* part_000: the score up to which the behaviour's apples are eaten
  app_scoreCap,
  \* part_000: tick() calls counted by the specifications that follow one
  \* session for a bounded number of ticks
  app_ticks,
  \* history of part_000, read by the properties only
  app_startedSinceReset, app_idleStartPending, app_firesSinceStart,
  \* ---- part_001 (cell-quantized continuous engine) ----
  cq_head, cq_px, cq_py, cq_dir, cq_pendingDir, cq_snake, cq_snakeLength,
  cq_food, cq_score, cq_highScore, cq_isRunning, cq_isGameOver,
  cq_headPrevCell, cq_loops,
  \* part_001: speedMultiplier, in units of 1 / cq_speedOne
  cq_speedMultiplier,
  \* part_001: the variables cols and rows
  cq_gridCols, cq_gridRows,
  \* history of part_001, read by the properties only
  cq_cameFrom,
  \* ---- src/game.js (pixel-continuous engine) ----
  g_running, g_paused, g_gameOver, g_score, g_highScore, g_stored, g_head,
  g_dir, g_length, g_segments, g_food, g_pendingDir, g_overlayShown, g_frames,
  g_canvasWidth, g_canvasHeight,
  \* history of game.js, read by the properties only
  g_inputSinceReset,
  \* game.js: update() calls counted by the specification that follows one
  \* session for a bounded number of frames
  g_updates,
  \* game.js: a call of spawnFood is in progress (the specification that
  \* follows spawnFood draw by draw)
  g_spawning

appVars == <<app_snake, app_dir, app_nextDir, app_apple, app_obstacles,
             app_score, app_highScore, app_gameInterval, app_running,
             app_paused, app_countdownTimer, app_leakedTimers,
             app_countdownValue, app_allowInput, app_modalShown,
             app_startDisabled, app_difficulty, app_tickRate, app_width,
             app_rows, app_storedHigh,
             app_storageFails, app_board, app_submitted, app_ticks,
             app_scoreCap,
             app_startedSinceReset, app_idleStartPending,
             app_firesSinceStart>>

cqVars == <<cq_head, cq_px, cq_py, cq_dir, cq_pendingDir, cq_snake,
            cq_snakeLength, cq_food, cq_score, cq_highScore, cq_isRunning,
            cq_isGameOver, cq_headPrevCell, cq_loops, cq_speedMultiplier,
            cq_gridCols,
            cq_gridRows, cq_cameFrom>>

gVars == <<g_running, g_paused, g_gameOver, g_score, g_highScore, g_stored,
           g_head, g_dir, g_length, g_segments, g_food, g_pendingDir,
           g_overlayShown, g_frames, g_canvasWidth, g_canvasHeight,
           g_inputSinceReset, g_updates, g_spawning>>

vars == <<variant, appVars, cqVars, gVars>>

----------------------------------------------------------------------------
(* Bounds of the model *)

\* part_000: grid width and height in cells of the sessions SpecApp follows
\* (28 x 28 in the program)
width == 4
rows == 4
\* part_000: apples one behaviour may eat in total between two resets
MaxApples == 1
\* part_000: countdown intervals that may be scheduled with their handle lost
MaxLeaked == 1
\* part_000: how far below zero countdownValue is followed
MaxBelowZero == 1
\* part_000: the history counter of countdown firings saturates here
MaxFiresTracked == 4
\* part_000: the longest snake a session in progress is entered with
MaxPlayLen == 4

\* part_001: grid size in cells of the sessions SpecCq follows
cq_cols == 4
cq_rows == 1
\* part_001: head.px and head.py are followed in units of 1/SubCell of a cell
SubCell == 2
\* part_001: the most a frame advances the head, in those units (speed * dt)
MaxStep == 2
\* part_001: the score up to which food is eaten
cq_MaxScore == 1
\* part_001: loop() chains that may be scheduled at once
MaxLoops == 2

\* game.js: lengths are followed in units of 1/(2 * g_unit) of CONFIG.cellSize
g_unit == 1
\* game.js: canvas width and height after init(), in cells of CONFIG.cellSize
g_canvasCols == 1
g_canvasRows == 1
\* game.js: the score up to which food is eaten
g_MaxScore == 1
\* game.js: loop() callbacks that may be scheduled at once
MaxFrames == 2
\* game.js: canvas of the session followed frame by frame, in cells
g_fieldCols == 8
g_fieldRows == 5
\* game.js: update() calls that session is followed for
MaxUpdates == 5

----------------------------------------------------------------------------
(* Constants of the programs *)

\* game.js: CONFIG.initialLength
g_initialLength == 5

\* part_000: the maintenance pass keeps at most this many obstacles
ObstacleCap == 12

\* part_001: snakeLength at initGame; the initial snake has as many cells
cq_InitialLength == 5
\* part_001: the value 1 of speedMultiplier; its values are multiples of 1/50
cq_speedOne == 50

----------------------------------------------------------------------------
(* Shared helpers *)

Pos(px, py) == [x |-> px, y |-> py]
null == Pos(-1, -1)
Right == Pos(1, 0)
Left == Pos(-1, 0)
Up == Pos(0, -1)
Down == Pos(0, 1)
Directions == {Up, Down, Left, Right}
Neg(d) == Pos(-d.x, -d.y)
Range(s) == {s[i] : i \in 1..Len(s)}
Front(s) == SubSeq(s, 1, Len(s) - 1)

----------------------------------------------------------------------------
(* JavaScript values the scripts pass to and from localStorage.  A stored   *)
(* item is absent or a text; a text is a sequence of characters.            *)

js_missing == [present |-> FALSE, text |-> <<>>]
js_item(t) == [present |-> TRUE, text |-> t]

\* the number NaN (no integer the model computes with)
NaN == -1000000

js_Digits == <<"0", "1", "2", "3", "4", "5", "6", "7", "8", "9">>
js_isDigit(c) == \E i \in 1..10 : js_Digits[i] = c
js_digitValue(c) == (CHOOSE i \in 1..10 : js_Digits[i] = c) - 1

\* the value of the longest prefix of digits of t, continuing from acc
RECURSIVE js_digitsValue(_, _)
js_digitsValue(t, acc) ==
  IF t = <<>> \/ ~js_isDigit(Head(t)) THEN acc
  ELSE js_digitsValue(Tail(t), 10 * acc + js_digitValue(Head(t)))

RECURSIVE js_trimStart(_)
js_trimStart(t) == IF t # <<>> /\ Head(t) = " " THEN js_trimStart(Tail(t)) ELSE t

\* parseInt(t, 10): leading blanks skipped, an optional sign, then the
\* longest prefix of digits; NaN when there is no digit
js_parseInt(t) ==
  LET u == js_trimStart(t)
      neg == u # <<>> /\ Head(u) = "-"
      v == IF u # <<>> /\ Head(u) \in {"-", "+"} THEN Tail(u) ELSE u
  IN  IF v = <<>> \/ ~js_isDigit(Head(v)) THEN NaN
      ELSE IF neg THEN -js_digitsValue(v, 0) ELSE js_digitsValue(v, 0)

\* the digits of n >= 0 written lowest first
RECURSIVE js_digitsOf_lowestFirst(_)
js_digitsOf_lowestFirst(n) ==
  IF n < 10 THEN <<js_Digits[n + 1]>>
  ELSE <<js_Digits[(n % 10) + 1]>> \o js_digitsOf_lowestFirst(n \div 10)

\* the decimal digits of n >= 0
RECURSIVE js_digitsOf(_)
js_digitsOf(n) ==
  IF n < 10 THEN <<js_Digits[n + 1]>>
  ELSE Append(js_digitsOf(n \div 10), js_Digits[(n % 10) + 1])

\* String(n), which setItem stores for a number
js_String(n) ==
  IF n = NaN THEN <<"N", "a", "N">>
  ELSE IF n < 0 THEN <<"-">> \o js_digitsOf(-n) ELSE js_digitsOf(n)

\* a > b on numbers: false when either is NaN
js_gt(a, b) == a # NaN /\ b # NaN /\ a > b

\* getItem(key) || '0'
js_orZero(item) == IF item.present /\ item.text # <<>> THEN item.text ELSE <<"0">>

\* The item 'snake_leaderboard' of localStorage, by the JSON structure of its
\* text: kind "missing" (no item), "empty" (the empty text), "malformed" (a
\* text JSON.parse rejects), "array" (an array of {name, score} objects, each
\* score a number literal kept as its characters), or the kind of another
\* JSON value: "object", "number", "string", "null".
js_boardItem(k, its) == [kind |-> k, items |-> its]
js_noBoard == js_boardItem("missing", <<>>)

\* a number literal of JSON text read as a number
js_jsonNumber(t) ==
  IF t # <<>> /\ Head(t) = "-" THEN -js_digitsValue(Tail(t), 0) ELSE js_digitsValue(t, 0)

\* JSON.stringify of a list of {name, score}
js_stringifyList(list) ==
  js_boardItem("array", [i \in 1..Len(list) |->
                           [name |-> list[i].name, score |-> js_String(list[i].score)]])

\* JSON.parse of the text of an item that holds JSON
js_parseItems(its) ==
  [i \in 1..Len(its) |-> [name |-> its[i].name, score |-> js_jsonNumber(its[i].score)]]

----------------------------------------------------------------------------
(* part_000: helpers *)

\* randInt(1,width-2) x randInt(1,rows-2)
app_InteriorCells == {Pos(i, j) : i \in 1..(app_width - 2), j \in 1..(app_rows - 2)}

\* a snake seeded with a second cell behind the head
app_InitialSnake_seeded ==
  <<Pos(app_width \div 2, app_rows \div 2), Pos(app_width \div 2 - 1, app_rows \div 2)>>

app_InitialSnake == <<Pos(app_width \div 2, app_rows \div 2)>>

\* highScore as the script loads it
app_loadHighScore(item) == js_parseInt(js_orZero(item))

\* an apple on any interior cell drawn, with no test
app_spawnApple_anyCell(sn, obs) == app_InteriorCells \cup {null}

\* The values spawnApple can leave in `apple`: any interior cell free of
\* snake and obstacles; null when all 500 draws hit occupied cells.
app_spawnApple(sn, obs) ==
  LET free == {p \in app_InteriorCells : p \notin Range(sn) /\ p \notin Range(obs)}
  IN  free \cup (IF free # app_InteriorCells THEN {null} ELSE {})

\* The obstacle lists the loop of spawnObstaclesInitial can end with: cells
\* drawn from randInt(2,width-3) x randInt(2,rows-3), each accepted only when
\* it is off the snake, off the apple and not yet an obstacle; the loop stops
\* at `count` obstacles or after 1000 draws, so every shorter list is possible.
RECURSIVE app_obstacleLists(_, _)
app_obstacleLists(valid, n) ==
  IF n = 0 THEN {<<>>}
  ELSE {<<>>} \cup
       UNION {{<<o>> \o rest : rest \in app_obstacleLists(valid \ {o}, n - 1)} : o \in valid}

\* the values of the difficulty select
Difficulties == {"easy", "medium", "hard"}

\* getTickRateForDifficulty, for the select's value d
app_getTickRateForDifficulty(d) ==
  IF d = "easy" THEN 6 ELSE IF d = "medium" THEN 10 ELSE IF d = "hard" THEN 16 ELSE 10

app_obstacleCount(d) ==
  IF d = "easy" THEN 2 ELSE IF d = "medium" THEN 4 ELSE IF d = "hard" THEN 6 ELSE 3

app_spawnObstaclesInitial(sn, ap, d) ==
  LET valid == {p \in {Pos(i, j) : i \in 2..(app_width - 3), j \in 2..(app_rows - 3)} :
                  p \notin Range(sn) /\ p # ap}
  IN  app_obstacleLists(valid, app_obstacleCount(d))

\* an obstacle pushed on any interior cell drawn, with no test
app_maybeAddObstacle_anyCell(sn, ap, obs) ==
  {obs} \cup {Append(obs, o) : o \in app_InteriorCells}

\* maybeAddObstacle: with probability 0.08 one interior cell is drawn and
\* pushed unless it lies on the snake, the apple or an obstacle.
app_maybeAddObstacle(sn, ap, obs) ==
  {obs} \cup {Append(obs, o) : o \in {p \in app_InteriorCells :
                 p \notin Range(sn) /\ p # ap /\ p \notin Range(obs)}}

\* a reversal test that rejects nothing
app_isReverse_never(newDir, d) == FALSE

\* applyDirection's "no reverse" test
app_isReverse(newDir, d) == newDir.x = -d.x /\ newDir.y = -d.y

\* the keydown handler's test: a vertical key needs dir.y = 0, a horizontal
\* key needs dir.x = 0
app_keyAccepts(newDir, d) == IF newDir.x = 0 THEN d.y = 0 ELSE d.x = 0

\* setInterval handles of the countdown that are still scheduled
app_ActiveCountdownTimers ==
  app_leakedTimers + (IF app_countdownTimer = "active" THEN 1 ELSE 0)

app_Min(a, b) == IF a < b THEN a ELSE b

----------------------------------------------------------------------------
(* part_000: the functions of app.js, as the parts of a step *)

\* resetGame: everything it assigns; the countdown timer, countdownValue,
\* the modal and the disabled flags are not touched by it.
app_resetGame ==
  /\ app_snake' = app_InitialSnake
  /\ app_dir' = Right
  /\ app_nextDir' = Right
  /\ app_score' = 0
  /\ app_allowInput' = TRUE
  /\ app_running' = FALSE
  /\ app_paused' = FALSE
  /\ app_gameInterval' = FALSE
  /\ app_apple' \in app_spawnApple(app_InitialSnake, <<>>)
  /\ app_obstacles' \in
       app_spawnObstaclesInitial(app_InitialSnake, app_apple', app_difficulty)
  /\ app_startedSinceReset' = FALSE
  /\ UNCHANGED <<app_countdownTimer, app_leakedTimers,
                 app_countdownValue, app_startDisabled, app_idleStartPending, app_firesSinceStart>>

\* beginGameLoop
app_beginGameLoop ==
  /\ app_running' = TRUE
  /\ app_paused' = FALSE
  /\ app_gameInterval' = TRUE
  /\ app_tickRate' = app_getTickRateForDifficulty(app_difficulty)

\* startWithCountdown: a new interval is scheduled and its handle stored in
\* countdownTimer; an interval still scheduled under the old handle stays
\* scheduled with its handle lost.
app_startWithCountdown ==
  IF app_running THEN UNCHANGED vars
  ELSE /\ app_leakedTimers + (IF app_countdownTimer = "active" THEN 1 ELSE 0) <= MaxLeaked
       /\ app_countdownValue' = 3
       /\ app_startDisabled' = TRUE
       /\ app_leakedTimers' = app_ActiveCountdownTimers
       /\ app_countdownTimer' = "active"
       /\ app_startedSinceReset' = TRUE
       /\ IF ~app_modalShown /\ app_ActiveCountdownTimers = 0
          THEN app_idleStartPending' = TRUE /\ app_firesSinceStart' = 0
          ELSE UNCHANGED <<app_idleStartPending, app_firesSinceStart>>
       /\ UNCHANGED <<variant, app_snake, app_dir, app_nextDir, app_apple,
                      app_obstacles, app_score, app_highScore,
                      app_gameInterval, app_running, app_paused,
                      app_allowInput, app_modalShown>>

\* togglePause
app_togglePause ==
  IF ~app_running THEN UNCHANGED vars
  ELSE /\ app_paused' = ~app_paused
       /\ UNCHANGED <<variant, app_snake, app_dir, app_nextDir, app_apple,
                      app_obstacles, app_score, app_highScore,
                      app_gameInterval, app_running, app_countdownTimer,
                      app_leakedTimers, app_countdownValue, app_allowInput,
                      app_modalShown, app_startDisabled, app_startedSinceReset,
                      app_idleStartPending, app_firesSinceStart>>

\* gameOver, run to its end
app_gameOver ==
  /\ app_running' = FALSE
  /\ app_paused' = FALSE
  /\ app_gameInterval' = FALSE
  /\ app_highScore' = IF js_gt(app_score, app_highScore) THEN app_score ELSE app_highScore
  /\ app_storedHigh' = IF js_gt(app_score, app_highScore)
                        THEN js_item(js_String(app_score)) ELSE app_storedHigh
  /\ app_modalShown' = TRUE

\* the window's error handler
app_onError == app_resetGame

\* loadLeaderboard: getItem(LB_KEY) || '[]' parsed; [] when the parse throws
app_loadLeaderboard(item) ==
  IF item.kind \in {"missing", "empty", "malformed"} THEN js_boardItem("array", <<>>)
  ELSE js_boardItem(item.kind, js_parseItems(item.items))

\* e placed into a list sorted by (a,b) => b.score - a.score, e having stood
\* before every element of the list: it goes before the first element whose
\* score is not higher
RECURSIVE app_insertByScore(_, _)
app_insertByScore(e, list) ==
  IF list = <<>> \/ list[1].score <= e.score THEN <<e>> \o list
  ELSE <<list[1]>> \o app_insertByScore(e, Tail(list))

\* list.sort((a,b) => b.score - a.score): by score, highest first, equal
\* scores in their order in the list
RECURSIVE app_sortByScore(_)
app_sortByScore(list) ==
  IF list = <<>> THEN <<>>
  ELSE app_insertByScore(Head(list), app_sortByScore(Tail(list)))

\* the entries saveLeaderboard keeps: list.slice(0,5)
LeaderboardSize == 5

\* a saveLeaderboard that stores the whole list
app_saveLeaderboard_all(list) == js_stringifyList(list)

\* saveLeaderboard: the item written
app_saveLeaderboard(list) ==
  js_stringifyList(SubSeq(list, 1, app_Min(LeaderboardSize, Len(list))))

\* renderLeaderboard runs to its end: list.length and list.forEach exist
app_renderCompletes(item) == app_loadLeaderboard(item).kind = "array"

\* the names the name form is submitted with ('' is stored as 'Anonymous')
app_Names == {"Anonymous", "Ann"}

\* nameForm's submit handler for the name entered.  list.push throws when
\* loadLeaderboard returned no array, setItem when the storage refuses the
\* write: the handler ends there and the error handler runs.
app_nameSubmit(name) ==
  LET list == app_loadLeaderboard(app_board)
  IN  IF list.kind # "array" \/ app_storageFails
      THEN /\ app_onError
           /\ UNCHANGED <<app_board, app_modalShown>>
      ELSE /\ app_board' = app_saveLeaderboard(
                             app_sortByScore(Append(list.items,
                                                    [name |-> name, score |-> app_score])))
           /\ app_modalShown' = FALSE
           /\ app_resetGame

\* gameOver when setItem throws: the assignments before the call are made,
\* the rest of gameOver is skipped, the exception leaves the tick callback
\* and the error handler runs
app_gameOverThrows ==
  /\ app_highScore' = app_score
  /\ app_onError
  /\ UNCHANGED <<app_storedHigh, app_modalShown>>

\* the neighbour cell in direction d, no wrap-around
app_nextHead_noWrap(sn, d) == Pos(sn[1].x + d.x, sn[1].y + d.y)

\* the cell tick() moves the head to, on the wrap-around grid
app_nextHead(sn, d) ==
  Pos((sn[1].x + d.x + app_width) % app_width, (sn[1].y + d.y + app_rows) % app_rows)

\* a collision test that looks at the obstacles only
app_collides_obstaclesOnly(head, sn, obs) == head \in Range(obs)

\* a collision test that looks at the snake only
app_collides_selfOnly(head, sn, obs) == \E i \in 2..Len(sn) : sn[i] = head

\* the collision tests of a grid with walls: a head that came in over the
\* opposite edge collides as well
app_collides_walls(head, sn, obs) ==
  \/ \E i \in 2..Len(sn) : sn[i] = head
  \/ head \in Range(obs)
  \/ head.x - sn[1].x \notin {-1, 0, 1}
  \/ head.y - sn[1].y \notin {-1, 0, 1}

\* tick()'s two collision tests: a body segment other than the head, an obstacle
app_collides(head, sn, obs) ==
  \/ \E i \in 2..Len(sn) : sn[i] = head
  \/ head \in Range(obs)

\* tick()
app_tick ==
  LET head == app_nextHead(app_snake, app_nextDir)
      grown == <<head>> \o app_snake
  IN
  IF app_collides(head, app_snake, app_obstacles)
       /\ js_gt(app_score, app_highScore) /\ app_storageFails
  THEN app_gameOverThrows
       /\ UNCHANGED <<variant, app_storageFails, app_board, app_difficulty, app_tickRate>>
  ELSE
  /\ app_dir' = app_nextDir
  /\ IF app_collides(head, app_snake, app_obstacles)
     THEN /\ app_gameOver
          /\ UNCHANGED <<app_snake, app_apple, app_obstacles, app_score,
                         app_allowInput>>
     ELSE /\ IF app_apple # null /\ head = app_apple
             THEN /\ app_score < app_scoreCap
                  /\ app_score' = app_score + 10
                  /\ app_snake' = grown
                  /\ app_apple' \in app_spawnApple(grown, app_obstacles)
                  /\ app_obstacles' \in app_maybeAddObstacle(grown, app_apple', app_obstacles)
             ELSE /\ app_snake' = Front(grown)
                  /\ UNCHANGED <<app_score, app_apple, app_obstacles>>
          /\ app_allowInput' = TRUE
          /\ UNCHANGED <<app_running, app_paused, app_gameInterval,
                         app_highScore, app_storedHigh, app_modalShown>>
  /\ UNCHANGED <<variant, app_storageFails, app_board, app_difficulty, app_tickRate,
                 app_nextDir, app_countdownTimer, app_leakedTimers,
                 app_countdownValue, app_startDisabled, app_startedSinceReset, app_idleStartPending,
                 app_firesSinceStart>>

\* applyDirection(dirStr) for the direction dirStr maps to
app_applyDirection(newDir) ==
  IF ~app_allowInput \/ app_isReverse(newDir, app_dir) THEN UNCHANGED vars
  ELSE /\ app_nextDir' = newDir
       /\ app_allowInput' = FALSE
       /\ UNCHANGED <<variant, app_snake, app_dir, app_apple, app_obstacles,
                      app_score, app_highScore, app_gameInterval,
                      app_running, app_paused, app_countdownTimer,
                      app_leakedTimers, app_countdownValue, app_modalShown,
                      app_startDisabled,
                      app_startedSinceReset, app_idleStartPending,
                      app_firesSinceStart>>

----------------------------------------------------------------------------
(* part_000: state after the script has run (resetGame() at its end) *)

\* the values part_000's variables keep while another engine runs
AppIdle ==
  /\ app_snake = <<>> /\ app_dir = Right /\ app_nextDir = Right
  /\ app_apple = null /\ app_obstacles = <<>> /\ app_score = 0
  /\ app_highScore = 0 /\ app_gameInterval = FALSE /\ app_running = FALSE
  /\ app_paused = FALSE /\ app_countdownTimer = "none" /\ app_leakedTimers = 0
  /\ app_countdownValue = 0 /\ app_allowInput = TRUE /\ app_modalShown = FALSE
  /\ app_startDisabled = FALSE /\ app_startedSinceReset = FALSE
  /\ app_idleStartPending = FALSE /\ app_firesSinceStart = 0
  /\ app_storedHigh = js_missing /\ app_storageFails = FALSE
  /\ app_board = js_noBoard /\ app_submitted = <<>>
  /\ app_width = 28 /\ app_rows = 28 /\ app_ticks = 0 /\ app_scoreCap = 0
  /\ app_difficulty = "medium" /\ app_tickRate = 10

\* the values part_001's variables keep while another engine runs
CqIdle ==
  /\ cq_head = Pos(5, 5) /\ cq_px = 0 /\ cq_py = 0
  /\ cq_dir = Right /\ cq_pendingDir = null
  /\ cq_snake = <<>> /\ cq_snakeLength = cq_InitialLength
  /\ cq_food = null /\ cq_score = 0 /\ cq_highScore = 0
  /\ cq_isRunning = FALSE /\ cq_isGameOver = FALSE
  /\ cq_headPrevCell = Pos(5, 5) /\ cq_loops = 0
  /\ cq_speedMultiplier = cq_speedOne
  /\ cq_gridCols = 30 /\ cq_gridRows = 20
  /\ cq_cameFrom = Pos(5, 5)

\* the values game.js's variables keep while another engine runs
GIdle ==
  /\ g_running = FALSE /\ g_paused = TRUE /\ g_gameOver = FALSE
  /\ g_score = 0 /\ g_highScore = 0 /\ g_stored = 0 /\ g_head = Pos(0, 0)
  /\ g_dir = Right /\ g_length = g_initialLength /\ g_segments = <<>>
  /\ g_food = null /\ g_pendingDir = null /\ g_overlayShown = FALSE
  /\ g_frames = 0 /\ g_inputSinceReset = FALSE
  /\ g_canvasWidth = 0 /\ g_canvasHeight = 0 /\ g_updates = 0
  /\ g_spawning = FALSE

\* a leaderboard filled by earlier sessions with scores no session of SpecApp
\* reaches
app_earlierBoard ==
  app_saveLeaderboard([i \in 1..LeaderboardSize |-> [name |-> "Anonymous", score |-> 990]])

InitApp ==
  /\ variant = "app"
  /\ app_width = width
  /\ app_rows = rows
  /\ app_ticks = 0
  /\ app_scoreCap = 10 * MaxApples
  /\ app_snake = app_InitialSnake
  /\ app_dir = Right
  /\ app_nextDir = Right
  /\ app_apple \in app_spawnApple(app_InitialSnake, <<>>)
  /\ app_difficulty = "medium"
  /\ app_tickRate = 10
  /\ app_obstacles \in
       app_spawnObstaclesInitial(app_InitialSnake, app_apple, app_difficulty)
  /\ app_score = 0
  /\ app_storedHigh = js_missing
  /\ app_storageFails = FALSE
  /\ app_board = app_earlierBoard
  /\ app_submitted = <<>>
  /\ app_highScore = app_loadHighScore(app_storedHigh)
  /\ app_gameInterval = FALSE
  /\ app_running = FALSE
  /\ app_paused = FALSE
  /\ app_countdownTimer = "none"
  /\ app_leakedTimers = 0
  /\ app_countdownValue = 0
  /\ app_allowInput = TRUE
  /\ app_modalShown = FALSE
  /\ app_startDisabled = FALSE
  /\ app_startedSinceReset = FALSE
  /\ app_idleStartPending = FALSE
  /\ app_firesSinceStart = 0
  /\ CqIdle
  /\ GIdle

----------------------------------------------------------------------------
(* part_000: one action per event handler and timer callback.  Clicks and  *)
(* touches reach the page's buttons only while the name modal (static      *)
(* backdrop) is hidden; key presses reach the document at any time.        *)

\* keydown, an arrow key
AppKeyArrow(newDir) ==
  /\ variant = "app"
  /\ UNCHANGED <<app_storedHigh, app_storageFails, app_board, app_difficulty, app_tickRate>>
  /\ IF ~app_allowInput \/ ~app_keyAccepts(newDir, app_dir) THEN UNCHANGED vars
     ELSE /\ app_nextDir' = newDir
          /\ app_allowInput' = FALSE
          /\ UNCHANGED <<variant, app_snake, app_dir, app_apple, app_obstacles,
                         app_score, app_highScore, app_gameInterval,
                         app_running, app_paused, app_countdownTimer,
                         app_leakedTimers, app_countdownValue, app_modalShown,
                         app_startDisabled,
                         app_startedSinceReset, app_idleStartPending,
                         app_firesSinceStart>>

\* keydown, "p" or "P"
AppKeyP ==
  /\ variant = "app"
  /\ UNCHANGED <<app_storedHigh, app_storageFails, app_board, app_difficulty, app_tickRate>>
  /\ IF ~app_allowInput THEN UNCHANGED vars ELSE app_togglePause

\* keydown, " "
AppKeySpace ==
  /\ variant = "app"
  /\ UNCHANGED <<app_storedHigh, app_storageFails, app_board, app_difficulty, app_tickRate>>
  /\ IF ~app_allowInput THEN UNCHANGED vars ELSE app_startWithCountdown

\* a touch button (touchstart / mousedown) or a swipe on the canvas
AppTouchDir(newDir) ==
  /\ variant = "app"
  /\ UNCHANGED <<app_storedHigh, app_storageFails, app_board, app_difficulty, app_tickRate>>
  /\ ~app_modalShown
  /\ app_applyDirection(newDir)

\* startBtn click (a disabled button gets no click)
AppStartBtn ==
  /\ variant = "app"
  /\ UNCHANGED <<app_storedHigh, app_storageFails, app_board, app_difficulty, app_tickRate>>
  /\ ~app_modalShown
  /\ ~app_startDisabled
  /\ app_startWithCountdown

\* pauseBtn click
AppPauseBtn ==
  /\ variant = "app"
  /\ UNCHANGED <<app_storedHigh, app_storageFails, app_board, app_difficulty, app_tickRate>>
  /\ ~app_modalShown
  /\ app_togglePause

\* resetBtn click, confirmed
AppResetBtn ==
  /\ variant = "app"
  /\ UNCHANGED <<app_highScore, app_storedHigh, app_storageFails, app_board, app_difficulty,
                 app_tickRate>>
  /\ ~app_modalShown
  /\ app_resetGame
  /\ UNCHANGED <<variant, app_modalShown>>

\* nameForm submit: the score goes to the leaderboard in localStorage, the
\* modal is hidden, the game reset
AppNameSubmit ==
  /\ variant = "app"
  /\ UNCHANGED <<app_highScore, app_storedHigh, app_storageFails, app_difficulty,
                 app_tickRate>>
  /\ app_modalShown
  /\ \E name \in app_Names : app_nameSubmit(name)
  /\ UNCHANGED variant

\* cancelNameBtn click
AppNameCancel ==
  /\ variant = "app"
  /\ UNCHANGED <<app_highScore, app_storedHigh, app_storageFails, app_board, app_difficulty,
                 app_tickRate>>
  /\ app_modalShown
  /\ app_modalShown' = FALSE
  /\ app_resetGame
  /\ UNCHANGED variant

\* the callback of a countdown interval; every scheduled one runs the same code
AppCountdownFire ==
  /\ variant = "app"
  /\ UNCHANGED <<app_storedHigh, app_storageFails, app_board, app_difficulty>>
  /\ app_ActiveCountdownTimers > 0
  /\ app_countdownValue > -MaxBelowZero
  /\ app_countdownValue' = app_countdownValue - 1
  /\ app_firesSinceStart' = app_Min(app_firesSinceStart + 1, MaxFiresTracked)
  /\ IF app_countdownValue - 1 > 0
     THEN UNCHANGED <<app_countdownTimer, app_running, app_paused,
                      app_gameInterval, app_tickRate, app_startDisabled,
                      app_idleStartPending>>
     ELSE /\ app_countdownTimer' =
               (IF app_countdownTimer = "active" THEN "cleared" ELSE app_countdownTimer)
          /\ app_beginGameLoop
          /\ app_startDisabled' = FALSE
          /\ app_idleStartPending' = FALSE
  /\ UNCHANGED <<variant, app_snake, app_dir, app_nextDir, app_apple,
                 app_obstacles, app_score, app_highScore, app_leakedTimers,
                 app_allowInput, app_modalShown,
                 app_startedSinceReset>>

\* the callback of the tick interval: if(!paused) tick()
AppTick ==
  /\ variant = "app"
  /\ app_gameInterval
  /\ IF app_paused THEN UNCHANGED vars ELSE app_tick

\* list.splice(start, count), start counted from 0: the list without the
\* count elements that follow its first start elements
js_splice(list, start, count) ==
  LET from == app_Min(start, Len(list))
      n == app_Min(IF count < 0 THEN 0 ELSE count, Len(list) - from)
  IN  SubSeq(list, 1, from) \o SubSeq(list, from + n + 1, Len(list))

\* a trim that drops the newest obstacles
app_trimObstacles_newest(obs) ==
  IF Len(obs) > ObstacleCap THEN js_splice(obs, ObstacleCap, Len(obs) - ObstacleCap)
  ELSE obs

\* the maintenance interval's trim:
\* if(obstacles.length > 12) obstacles.splice(0, obstacles.length - 12)
app_trimObstacles(obs) ==
  IF Len(obs) > ObstacleCap THEN js_splice(obs, 0, Len(obs) - ObstacleCap) ELSE obs

\* a maintenance pass that trims the obstacles and leaves the apple alone
AppMaintenance_trimOnly ==
  /\ variant = "app"
  /\ app_obstacles' = (IF Len(app_obstacles) > ObstacleCap
                       THEN SubSeq(app_obstacles, Len(app_obstacles) - ObstacleCap + 1,
                                   Len(app_obstacles))
                       ELSE app_obstacles)
  /\ UNCHANGED <<variant, app_snake, app_dir, app_nextDir, app_apple, app_score,
                 app_highScore, app_gameInterval, app_running, app_paused,
                 app_countdownTimer, app_leakedTimers, app_countdownValue,
                 app_allowInput, app_modalShown, app_startDisabled,
                 app_storedHigh, app_storageFails, app_board, app_difficulty, app_tickRate,
                 app_startedSinceReset, app_idleStartPending,
                 app_firesSinceStart>>

\* the 3-second maintenance interval
AppMaintenance ==
  /\ variant = "app"
  /\ UNCHANGED <<app_storedHigh, app_storageFails, app_board, app_difficulty, app_tickRate>>
  /\ app_apple' \in (IF app_apple = null
                     THEN app_spawnApple(app_snake, app_obstacles)
                     ELSE {app_apple})
  /\ app_obstacles' = app_trimObstacles(app_obstacles)
  /\ UNCHANGED <<variant, app_snake, app_dir, app_nextDir, app_score,
                 app_highScore, app_gameInterval, app_running, app_paused,
                 app_countdownTimer, app_leakedTimers, app_countdownValue,
                 app_allowInput, app_modalShown, app_startDisabled, app_startedSinceReset,
                 app_idleStartPending, app_firesSinceStart>>

NextApp ==
  /\ UNCHANGED <<cqVars, gVars, app_width, app_rows, app_ticks, app_scoreCap, app_submitted>>
  /\ \/ \E d \in Directions : AppKeyArrow(d)
     \/ AppKeyP
     \/ AppKeySpace
     \/ \E d \in Directions : AppTouchDir(d)
     \/ AppStartBtn
     \/ AppPauseBtn
     \/ AppResetBtn
     \/ AppNameSubmit
     \/ AppNameCancel
     \/ AppCountdownFire
     \/ AppTick
     \/ AppMaintenance


----------------------------------------------------------------------------
(* part_001: helpers *)

\* FOOD_TYPES[i].points
cq_FoodPoints == {1, 3, 5}

cq_Grid == {Pos(i, j) : i \in 0..(cq_gridCols - 1), j \in 0..(cq_gridRows - 1)}

\* Math.round(p / cellSize) for p in units of 1/SubCell of a cell: the
\* nearest cell, halves rounded up
cq_round(p) == (2 * p + SubCell) \div (2 * SubCell)

cq_Max(a, b) == IF a > b THEN a ELSE b

\* The values spawnFood can leave in `food`: any cell off the snake and the
\* head with any food type; after 200 draws on occupied cells, cell (0,0)
\* with the first food type.
cq_spawnFood(sn, hd) ==
  LET free == {c \in cq_Grid : c \notin Range(sn) /\ c # hd}
  IN  {[x |-> c.x, y |-> c.y, points |-> p] : c \in free, p \in cq_FoodPoints}
      \cup (IF free # cq_Grid THEN {[x |-> 0, y |-> 0, points |-> 1]} ELSE {})

\* setDirection's and update's reversal test
cq_isReverse(n, d) == n.x = -d.x /\ n.y = -d.y

\* update: the test that the new head cell is a wall
cq_hitsWall(c) == c.x < 0 \/ c.x >= cq_gridCols \/ c.y < 0 \/ c.y >= cq_gridRows

\* no segment is popped
cq_trim_never(sn, n) == sn

\* while (snake.length > snakeLength) snake.pop()
cq_trim(sn, n) == IF Len(sn) > n THEN SubSeq(sn, 1, n) ELSE sn

\* speedMultiplier = 1 + Math.min(1.0, score / 50)
cq_speedAt(sc) == cq_speedOne + (IF sc < cq_speedOne THEN sc ELSE cq_speedOne)

cq_StartHead == Pos(cq_gridCols \div 3, cq_gridRows \div 2)

cq_StartSnake == [i \in 1..cq_InitialLength |-> Pos(cq_StartHead.x - i, cq_StartHead.y)]

----------------------------------------------------------------------------
(* part_001: the functions of the script, as the parts of a step *)

\* initGame; isRunning, which it clears, is left to the caller's step.
\* cq_cameFrom is the cell the head was in before the last registered cell.
cq_initGame ==
  /\ cq_head' = cq_StartHead
  /\ cq_px' = cq_StartHead.x * SubCell
  /\ cq_py' = cq_StartHead.y * SubCell
  /\ cq_dir' = Right
  /\ cq_pendingDir' = null
  /\ cq_snake' = cq_StartSnake
  /\ cq_snakeLength' = cq_InitialLength
  /\ cq_score' = 0
  /\ cq_isGameOver' = FALSE
  /\ cq_food' \in cq_spawnFood(cq_StartSnake, cq_StartHead)
  /\ cq_cameFrom' = cq_StartHead
  /\ UNCHANGED <<cq_highScore, cq_headPrevCell, cq_speedMultiplier>>

\* triggerGameOver
cq_triggerGameOver ==
  /\ cq_isRunning' = FALSE
  /\ cq_isGameOver' = TRUE
  /\ cq_highScore' = IF cq_score > cq_highScore THEN cq_score ELSE cq_highScore

\* startGame
cq_startGame ==
  /\ IF cq_isGameOver
     THEN cq_initGame
     ELSE UNCHANGED <<cq_head, cq_px, cq_py, cq_dir, cq_pendingDir, cq_snake,
                      cq_snakeLength, cq_score, cq_isGameOver, cq_food,
                      cq_highScore, cq_headPrevCell, cq_cameFrom,
                      cq_speedMultiplier>>
  /\ IF cq_isGameOver \/ ~cq_isRunning
     THEN /\ cq_loops < MaxLoops
          /\ cq_isRunning' = TRUE
          /\ cq_loops' = cq_loops + 1
     ELSE UNCHANGED <<cq_isRunning, cq_loops>>

\* update(dt), the head advancing by k = speed * dt
cq_update(k) ==
  IF cq_isGameOver THEN UNCHANGED cqVars
  ELSE
  LET d == IF cq_pendingDir # null /\ ~cq_isReverse(cq_pendingDir, cq_dir)
           THEN cq_pendingDir ELSE cq_dir
      npx == cq_px + d.x * k
      npy == cq_py + d.y * k
      newCell == Pos(cq_round(npx), cq_round(npy))
      grown == <<newCell>> \o cq_snake
      eats == cq_food # null /\ newCell.x = cq_food.x /\ newCell.y = cq_food.y
  IN
  /\ cq_dir' = d
  /\ cq_pendingDir' = null
  /\ cq_px' = npx
  /\ cq_py' = npy
  /\ UNCHANGED cq_loops
  /\ IF newCell = cq_headPrevCell
     THEN UNCHANGED <<cq_head, cq_headPrevCell, cq_snake, cq_snakeLength,
                      cq_food, cq_score, cq_highScore, cq_isRunning,
                      cq_isGameOver, cq_cameFrom, cq_speedMultiplier>>
     ELSE /\ cq_headPrevCell' = newCell
          /\ cq_cameFrom' = cq_head
          /\ cq_head' = newCell
          /\ IF cq_hitsWall(newCell) \/ newCell \in Range(cq_snake)
             THEN /\ cq_triggerGameOver
                  /\ UNCHANGED <<cq_snake, cq_snakeLength, cq_food, cq_score,
                                 cq_speedMultiplier>>
             ELSE /\ IF eats
                     THEN /\ cq_score < cq_MaxScore
                          /\ cq_score' = cq_score + cq_food.points
                          /\ cq_snakeLength' = cq_snakeLength + cq_Max(1, cq_food.points)
                          /\ cq_speedMultiplier' = cq_speedAt(cq_score')
                          /\ cq_food' \in cq_spawnFood(grown, newCell)
                     ELSE UNCHANGED <<cq_score, cq_snakeLength, cq_food,
                                      cq_speedMultiplier>>
                  /\ cq_snake' = cq_trim(grown, cq_snakeLength')
                  /\ UNCHANGED <<cq_highScore, cq_isRunning, cq_isGameOver>>

----------------------------------------------------------------------------
(* part_001: state after startUp() *)

InitCq ==
  /\ variant = "cq"
  /\ cq_gridCols = cq_cols
  /\ cq_gridRows = cq_rows
  /\ cq_head = cq_StartHead
  /\ cq_px = cq_StartHead.x * SubCell
  /\ cq_py = cq_StartHead.y * SubCell
  /\ cq_dir = Right
  /\ cq_pendingDir = null
  /\ cq_snake = cq_StartSnake
  /\ cq_snakeLength = cq_InitialLength
  /\ cq_food \in cq_spawnFood(cq_StartSnake, cq_StartHead)
  /\ cq_score = 0
  /\ cq_highScore = 0
  /\ cq_isRunning = FALSE
  /\ cq_isGameOver = FALSE
  /\ cq_headPrevCell = Pos(5, 5)
  /\ cq_speedMultiplier = cq_speedOne
  /\ cq_loops = 0
  /\ cq_cameFrom = cq_StartHead
  /\ AppIdle
  /\ GIdle

----------------------------------------------------------------------------
(* part_001: one action per event handler and callback *)

\* setDirection(nx, ny): from a key, a control button or a swipe
CqSetDirection(n) ==
  /\ IF cq_isGameOver \/ ~cq_isRunning \/ cq_isReverse(n, cq_dir)
     THEN UNCHANGED cqVars
     ELSE /\ cq_pendingDir' = n
          /\ UNCHANGED <<cq_head, cq_px, cq_py, cq_dir, cq_snake,
                         cq_snakeLength, cq_food, cq_score, cq_highScore,
                         cq_isRunning, cq_isGameOver, cq_headPrevCell,
                         cq_speedMultiplier,
                         cq_loops, cq_cameFrom>>

\* keydown " "
CqKeySpace ==
  IF ~cq_isRunning THEN cq_startGame ELSE UNCHANGED cqVars

\* startBtn click
CqStartBtn ==
  IF ~cq_isRunning THEN cq_startGame ELSE UNCHANGED cqVars

\* resetBtn click: resetGame
CqResetBtn ==
  /\ cq_isRunning' = FALSE
  /\ cq_initGame
  /\ UNCHANGED cq_loops

\* one callback of a scheduled loop(now); it always schedules itself again
CqLoop(k) ==
  /\ cq_loops > 0
  /\ IF cq_isRunning THEN cq_update(k) ELSE UNCHANGED cqVars

NextCq ==
  /\ variant = "cq"
  /\ UNCHANGED <<variant, appVars, gVars, cq_gridCols, cq_gridRows>>
  /\ \/ \E n \in Directions : CqSetDirection(n)
     \/ CqKeySpace
     \/ CqStartBtn
     \/ CqResetBtn
     \/ \E k \in 0..MaxStep : CqLoop(k)

SpecCq == InitCq /\ [][NextCq]_vars

----------------------------------------------------------------------------
(* part_001: start-up and window resizes, for the widths a page can give   *)
(* the canvas container                                                     *)

\* clientWidth of the canvas container, in px
ContainerWidths == {272, 332, 392, 512}

\* resizeCanvas: cols for a container of clientWidth w
cq_resizeCols(w) ==
  LET containerWidth == w - 32
      targetCell == cq_Max(12, (containerWidth + 12) \div 24)
      cellSize == cq_Max(14, containerWidth \div targetCell)
  IN  cq_Max(12, containerWidth \div cellSize)

\* resizeCanvas: rows for cols
cq_resizeRows(c) == cq_Max(12, (c * 9) \div 16)

\* startUp: resizeCanvas() and initGame(); headPrevCell was assigned from
\* the declared head before
InitCqStartUp ==
  /\ variant = "cq"
  /\ \E w \in ContainerWidths :
       /\ cq_gridCols = cq_resizeCols(w)
       /\ cq_gridRows = cq_resizeRows(cq_resizeCols(w))
  /\ cq_head = cq_StartHead
  /\ cq_px = cq_StartHead.x * SubCell
  /\ cq_py = cq_StartHead.y * SubCell
  /\ cq_dir = Right
  /\ cq_pendingDir = null
  /\ cq_snake = cq_StartSnake
  /\ cq_snakeLength = cq_InitialLength
  /\ cq_food \in cq_spawnFood(cq_StartSnake, cq_StartHead)
  /\ cq_score = 0
  /\ cq_highScore = 0
  /\ cq_isRunning = FALSE
  /\ cq_isGameOver = FALSE
  /\ cq_headPrevCell = Pos(5, 5)
  /\ cq_speedMultiplier = cq_speedOne
  /\ cq_loops = 0
  /\ cq_cameFrom = cq_StartHead
  /\ AppIdle
  /\ GIdle

\* the window's resize handler: resizeCanvas() and draw()
CqResize(w) ==
  /\ variant = "cq"
  /\ cq_gridCols' = cq_resizeCols(w)
  /\ cq_gridRows' = cq_resizeRows(cq_resizeCols(w))
  /\ cq_px' = cq_head.x * SubCell
  /\ cq_py' = cq_head.y * SubCell
  /\ UNCHANGED <<variant, appVars, gVars, cq_head, cq_dir, cq_pendingDir,
                 cq_snake, cq_snakeLength, cq_food, cq_score, cq_highScore,
                 cq_isRunning, cq_isGameOver, cq_headPrevCell, cq_loops,
                 cq_speedMultiplier,
                 cq_cameFrom>>

NextCqStartUp == \E w \in ContainerWidths : CqResize(w)

SpecCqStartUp == InitCqStartUp /\ [][NextCqStartUp]_vars

----------------------------------------------------------------------------
(* game.js: helpers.  Positions are in model units; CONFIG.cellSize (22 px) *)
(* is g_cellSize units, and every threshold keeps its ratio to it.          *)

g_cellSize == 2 * g_unit

\* CONFIG.foodTypes[i].points
g_FoodPoints == {1, 3, 5, 10}

\* CONFIG.speed * dt for the largest dt loop() passes (0.1 s): 16 px of 22
g_maxAdvance == (16 * g_cellSize) \div 22

\* randInt(min, max) = Math.floor(Math.random() * (max - min + 1)) + min
g_randInt(min, max) == IF max >= min THEN min..max ELSE (max + 1)..min

\* distance(a, b) squared
g_dist2(a, b) == (a.x - b.x) * (a.x - b.x) + (a.y - b.y) * (a.y - b.y)

\* distance(a, b) < CONFIG.cellSize * 0.9
g_nearFood(a, b) == 100 * g_dist2(a, b) < 81 * g_cellSize * g_cellSize

\* distance(last, head) >= CONFIG.cellSize * 0.85
g_farEnough(a, b) == 400 * g_dist2(a, b) >= 289 * g_cellSize * g_cellSize

\* distance(head, segment) < CONFIG.collisionThreshold (14 px of 22)
g_touches(a, b) == 121 * g_dist2(a, b) < 49 * g_cellSize * g_cellSize

\* The values spawnFood can leave in `food`: a cell centre of the inner grid
\* with any food type, redrawn (by recursion) while it lies within 0.9 cell
\* of a segment.
g_spawnFood(segs) ==
  LET margin == g_cellSize
      fcols == (g_canvasWidth - margin * 2) \div g_cellSize
      frows == (g_canvasHeight - margin * 2) \div g_cellSize
  IN  {f \in {[x |-> margin + i * g_cellSize + g_unit,
               y |-> margin + j * g_cellSize + g_unit, points |-> p] :
                 i \in g_randInt(0, fcols - 1), j \in g_randInt(0, frows - 1),
                 p \in g_FoodPoints} :
         ~\E n \in 1..Len(segs) : g_nearFood(segs[n], f)}

g_StartHead == Pos(g_canvasWidth \div 2, g_canvasHeight \div 2)

g_StartSegments ==
  [i \in 1..g_initialLength |-> Pos(g_StartHead.x - (i - 1) * g_cellSize, g_StartHead.y)]

g_Max(a, b) == IF a > b THEN a ELSE b

g_trim(segs, n) == IF Len(segs) > n THEN SubSeq(segs, 1, n) ELSE segs

----------------------------------------------------------------------------
(* game.js: the functions of the script, as the parts of a step *)

\* resetGameState; pendingDir is not among the variables it assigns.  paused
\* and running, which it sets, are assigned again by the startGame that
\* follows it in every handler, and are left to that.
g_resetGameState ==
  /\ g_score' = 0
  /\ g_highScore' = g_stored
  /\ g_length' = g_initialLength
  /\ g_head' = g_StartHead
  /\ g_dir' = Right
  /\ g_segments' = g_StartSegments
  /\ g_food' \in g_spawnFood(g_StartSegments)
  /\ g_gameOver' = FALSE
  /\ g_overlayShown' = FALSE
  /\ g_inputSinceReset' = FALSE
  /\ UNCHANGED <<g_stored, g_pendingDir>>

\* startGame, after any resetGameState of its caller
g_startGame(reset) ==
  /\ IF reset \/ g_gameOver
     THEN g_resetGameState
     ELSE UNCHANGED <<g_score, g_highScore, g_length, g_head, g_dir,
                      g_segments, g_food, g_gameOver, g_overlayShown,
                      g_stored, g_pendingDir, g_inputSinceReset>>
  /\ g_paused' = FALSE
  /\ g_running' = TRUE
  /\ g_frames < MaxFrames
  /\ g_frames' = g_frames + 1

\* togglePause
g_togglePause ==
  IF g_gameOver THEN UNCHANGED gVars
  ELSE /\ g_paused' = ~g_paused
       /\ IF g_paused
          THEN g_frames < MaxFrames /\ g_frames' = g_frames + 1
          ELSE UNCHANGED g_frames
       /\ UNCHANGED <<g_running, g_gameOver, g_score, g_highScore, g_stored,
                      g_head, g_dir, g_length, g_segments, g_food,
                      g_pendingDir, g_overlayShown, g_inputSinceReset>>

\* update(dt), the head advancing by k = CONFIG.speed * dt; the frames
\* variable is left to loop()
g_update(k) ==
  LET d == IF g_pendingDir # null THEN g_pendingDir ELSE g_dir
      hd == Pos(g_head.x + d.x * k, g_head.y + d.y * k)
      last == IF Len(g_segments) > 0 THEN g_segments[1] ELSE hd
      sampled == IF g_farEnough(last, hd) THEN <<hd>> \o g_segments ELSE g_segments
      segs == g_trim(sampled, g_Max(3, g_length + 2))
      eats == g_food # null /\ g_nearFood(hd, g_food)
      sc == IF eats THEN g_score + g_food.points ELSE g_score
      hs == IF eats /\ sc > g_highScore THEN sc ELSE g_highScore
      wall == hd.x < 0 \/ hd.y < 0 \/ hd.x > g_canvasWidth \/ hd.y > g_canvasHeight
      self == \E i \in 5..Len(segs) : g_touches(hd, segs[i])
      ends == wall \/ self
  IN
  /\ g_dir' = d
  /\ g_pendingDir' = null
  /\ g_head' = hd
  /\ g_segments' = segs
  /\ eats => g_score < g_MaxScore
  /\ g_score' = sc
  /\ g_length' = IF eats THEN g_length + g_Max(1, g_food.points) ELSE g_length
  /\ g_food' \in (IF eats THEN g_spawnFood(segs) ELSE {g_food})
  \* endGame
  /\ g_gameOver' = ends
  /\ g_running' = (IF ends THEN FALSE ELSE g_running)
  /\ g_paused' = (IF ends THEN TRUE ELSE g_paused)
  /\ g_highScore' = (IF ends /\ sc > hs THEN sc ELSE hs)
  /\ g_stored' = (IF g_highScore' # g_highScore THEN g_highScore' ELSE g_stored)
  /\ g_overlayShown' = (IF ends THEN TRUE ELSE g_overlayShown)
  /\ UNCHANGED g_inputSinceReset

----------------------------------------------------------------------------
(* game.js: state after init() *)

InitG ==
  /\ variant = "g"
  /\ g_canvasWidth = g_canvasCols * g_cellSize
  /\ g_canvasHeight = g_canvasRows * g_cellSize
  /\ g_stored = 0
  /\ g_score = 0
  /\ g_highScore = 0
  /\ g_length = g_initialLength
  /\ g_head = g_StartHead
  /\ g_dir = Right
  /\ g_segments = g_StartSegments
  /\ g_food \in g_spawnFood(g_StartSegments)
  /\ g_gameOver = FALSE
  /\ g_paused = TRUE
  /\ g_running = FALSE
  /\ g_pendingDir = null
  /\ g_overlayShown = FALSE
  /\ g_frames = 0
  /\ g_inputSinceReset = FALSE
  /\ g_updates = 0
  /\ g_spawning = FALSE
  /\ AppIdle
  /\ CqIdle

----------------------------------------------------------------------------
(* game.js: one action per event handler and callback *)

\* setDirection(dx, dy): from a key or a touch button
GSetDirection(n) ==
  IF n.x = -g_dir.x /\ n.y = -g_dir.y THEN UNCHANGED gVars
  ELSE /\ g_pendingDir' = n
       /\ g_inputSinceReset' = TRUE
       /\ UNCHANGED <<g_running, g_paused, g_gameOver, g_score, g_highScore,
                      g_stored, g_head, g_dir, g_length, g_segments, g_food,
                      g_overlayShown, g_frames>>

\* keydown " ": togglePause
GKeySpace == g_togglePause

\* startBtn click
GStartBtn == g_startGame(FALSE)

\* resetBtn click: resetGameState(); startGame()
GResetBtn == g_startGame(TRUE)

\* overlayReset click (the overlay is on screen)
GOverlayReset == g_overlayShown /\ g_startGame(TRUE)

\* overlayStart click: hideOverlay(); startGame()
GOverlayStart ==
  /\ g_overlayShown
  /\ g_startGame(FALSE)

\* one scheduled loop(timestamp) callback runs
GLoop(k) ==
  /\ g_frames > 0
  /\ IF ~g_running \/ g_paused \/ g_gameOver
     THEN /\ g_frames' = g_frames - 1
          /\ UNCHANGED <<g_running, g_paused, g_gameOver, g_score,
                         g_highScore, g_stored, g_head, g_dir, g_length,
                         g_segments, g_food, g_pendingDir, g_overlayShown,
                         g_inputSinceReset>>
     ELSE /\ g_update(k)
          /\ g_frames' = IF g_running' /\ ~g_paused' /\ ~g_gameOver'
                         THEN g_frames ELSE g_frames - 1

NextG ==
  /\ variant = "g"
  /\ UNCHANGED <<variant, appVars, cqVars, g_canvasWidth, g_canvasHeight,
                 g_updates, g_spawning>>
  /\ \/ \E n \in Directions : GSetDirection(n)
     \/ GKeySpace
     \/ GStartBtn
     \/ GResetBtn
     \/ GOverlayReset
     \/ GOverlayStart
     \/ \E k \in 0..g_maxAdvance : GLoop(k)

SpecG == InitG /\ [][NextG]_vars

SpecApp == InitApp /\ [][NextApp]_vars

----------------------------------------------------------------------------
(* part_000: a session in progress.  The state right after a tick of a      *)
(* running game: a snake of 1..MaxPlayLen cells that tick() has laid out    *)
(* (each cell next to the one before it on the wrap-around grid, no cell    *)
(* twice), 10 points per cell eaten, at most one obstacle added so far, the *)
(* apple off snake and obstacles, no input taken since the tick.            *)

app_Cells == {Pos(i, j) : i \in 0..(app_width - 1), j \in 0..(app_rows - 1)}

app_neighbours(c) ==
  {Pos((c.x + d.x + app_width) % app_width, (c.y + d.y + app_rows) % app_rows) : d \in Directions}

\* the snakes of n cells, head first
RECURSIVE app_snakesOfLength(_)
app_snakesOfLength(n) ==
  IF n = 1 THEN {<<c>> : c \in app_Cells}
  ELSE UNION {{<<h>> \o sn : h \in app_neighbours(sn[1]) \ Range(sn)} :
                sn \in app_snakesOfLength(n - 1)}

\* the direction the last tick moved the head of sn in
app_headedIn(sn, d) ==
  Len(sn) >= 2 => sn[1] = Pos((sn[2].x + d.x + app_width) % app_width,
                              (sn[2].y + d.y + app_rows) % app_rows)

\* a session in progress, the snake of at most maxLen cells
app_Playing(maxLen) ==
  /\ variant = "app"
  /\ app_difficulty = "medium"
  /\ app_tickRate = app_getTickRateForDifficulty(app_difficulty)
  /\ \E n \in 1..maxLen : app_snake \in app_snakesOfLength(n)
  /\ app_dir \in {d \in Directions : app_headedIn(app_snake, d)}
  /\ app_nextDir = app_dir
  /\ app_obstacles \in {<<>>} \cup
       (IF Len(app_snake) >= 2
        THEN {<<o>> : o \in {p \in app_InteriorCells : p \notin Range(app_snake)}}
        ELSE {})
  /\ app_apple \in app_spawnApple(app_snake, app_obstacles)
  /\ app_score = 10 * (Len(app_snake) - 1)
  /\ app_gameInterval = TRUE
  /\ app_running = TRUE
  /\ app_paused = FALSE
  /\ app_countdownTimer = "cleared"
  /\ app_leakedTimers = 0
  /\ app_countdownValue = 0
  /\ app_allowInput = TRUE
  /\ app_modalShown = FALSE
  /\ app_startDisabled = FALSE
  /\ app_startedSinceReset = TRUE
  /\ app_idleStartPending = FALSE
  /\ app_firesSinceStart = 3
  /\ CqIdle
  /\ GIdle

\* the first session after the page was loaded with nothing stored
InitAppPlay ==
  /\ app_width = width
  /\ app_rows = rows
  /\ app_ticks = 0
  /\ app_scoreCap = 10 * MaxApples
  /\ app_Playing(MaxPlayLen)
  /\ app_storedHigh = js_missing
  /\ app_storageFails = FALSE
  /\ app_board = js_noBoard
  /\ app_submitted = <<>>
  /\ app_highScore = app_loadHighScore(app_storedHigh)

\* the session goes on: direction inputs and ticks
NextAppPlay ==
  /\ UNCHANGED <<cqVars, gVars, app_width, app_rows, app_ticks, app_scoreCap, app_submitted>>
  /\ \/ \E d \in Directions : AppKeyArrow(d)
     \/ \E d \in Directions : AppTouchDir(d)
     \/ AppTick

\* the two grid engines: part_000 from a session in progress, part_001 from
\* its start
SpecCollide == (InitAppPlay \/ InitCq) /\ [][NextAppPlay \/ NextCq]_vars

----------------------------------------------------------------------------
(* part_000 on a grid with room for obstacles: one session followed from   *)
(* the moment the countdown has started it, for a bounded number of ticks  *)

fieldWidth == 6
fieldRows == 6
MaxFieldTicks == 2

\* what the session's variables hold besides snake, apple and obstacles
app_FieldRunning(w, h, d) ==
  /\ variant = "app"
  /\ app_difficulty = d
  /\ app_tickRate = app_getTickRateForDifficulty(d)
  /\ app_width = w
  /\ app_rows = h
  /\ app_ticks = 0
  /\ app_gameInterval = TRUE
  /\ app_running = TRUE
  /\ app_paused = FALSE
  /\ app_countdownTimer = "cleared"
  /\ app_leakedTimers = 0
  /\ app_countdownValue = 0
  /\ app_allowInput = TRUE
  /\ app_modalShown = FALSE
  /\ app_startDisabled = FALSE
  /\ app_startedSinceReset = TRUE
  /\ app_idleStartPending = FALSE
  /\ app_firesSinceStart = 3
  /\ app_storedHigh = js_missing
  /\ app_storageFails = FALSE
  /\ app_board = js_noBoard
  /\ app_submitted = <<>>
  /\ app_highScore = app_loadHighScore(app_storedHigh)
  /\ CqIdle
  /\ GIdle

\* resetGame() at the end of the script, then Start and the countdown
InitAppField ==
  /\ \E d \in Difficulties : app_FieldRunning(fieldWidth, fieldRows, d)
  /\ app_scoreCap = 10 * MaxApples
  /\ app_snake = app_InitialSnake
  /\ app_dir = Right
  /\ app_nextDir = Right
  /\ app_score = 0
  /\ app_apple \in app_spawnApple(app_InitialSnake, <<>>)
  /\ app_obstacles \in
       app_spawnObstaclesInitial(app_InitialSnake, app_apple, app_difficulty)

\* a change handler that restarts the loop the way the Start button does
AppDifficultyChange_restart(d) ==
  /\ variant = "app"
  /\ ~app_modalShown
  /\ ~app_startDisabled
  /\ d # app_difficulty
  /\ app_difficulty' = d
  /\ app_tickRate' = app_getTickRateForDifficulty(d)
  /\ app_gameInterval' = TRUE
  /\ app_paused' = FALSE
  /\ app_running' = TRUE
  /\ UNCHANGED <<variant, app_snake, app_dir, app_nextDir, app_apple,
                 app_obstacles, app_score, app_highScore,
                 app_countdownTimer, app_leakedTimers,
                 app_countdownValue, app_allowInput, app_modalShown,
                 app_startDisabled, app_storedHigh, app_storageFails, app_board,
                 app_startedSinceReset, app_idleStartPending,
                 app_firesSinceStart>>

\* the difficulty select's change handler
AppDifficultyChange(d) ==
  /\ variant = "app"
  /\ ~app_modalShown
  /\ ~app_startDisabled
  /\ d # app_difficulty
  /\ app_difficulty' = d
  /\ IF app_running
     THEN /\ app_tickRate' = app_getTickRateForDifficulty(d)
          /\ app_gameInterval' = TRUE
     ELSE UNCHANGED <<app_tickRate, app_gameInterval>>
  /\ UNCHANGED <<variant, app_snake, app_dir, app_nextDir, app_apple,
                 app_obstacles, app_score, app_highScore, app_running,
                 app_paused, app_countdownTimer, app_leakedTimers,
                 app_countdownValue, app_allowInput, app_modalShown,
                 app_startDisabled, app_storedHigh, app_storageFails, app_board,
                 app_startedSinceReset, app_idleStartPending,
                 app_firesSinceStart>>

AppFieldTick ==
  /\ app_ticks < MaxFieldTicks
  /\ app_ticks' = app_ticks + 1
  /\ AppTick

\* Reset, followed when it is pressed before the session's first tick
AppFieldReset ==
  /\ app_ticks = 0
  /\ UNCHANGED app_ticks
  /\ AppResetBtn

NextAppField ==
  /\ UNCHANGED <<cqVars, gVars, app_width, app_rows, app_scoreCap, app_submitted>>
  /\ \/ (\E d \in Directions : AppKeyArrow(d)) /\ UNCHANGED app_ticks
     \/ AppFieldTick
     \/ AppMaintenance /\ UNCHANGED app_ticks
     \/ AppFieldReset

SpecAppField == InitAppField /\ [][NextAppField]_vars

\* the same session with the difficulty select in use
NextAppDifficulty ==
  \/ NextAppField
  \/ /\ \E d \in Difficulties : AppDifficultyChange(d)
     /\ UNCHANGED <<cqVars, gVars, app_width, app_rows, app_ticks, app_scoreCap, app_submitted>>
  \/ /\ AppKeyP
     /\ UNCHANGED <<cqVars, gVars, app_width, app_rows, app_ticks, app_scoreCap, app_submitted>>

SpecAppDifficulty == InitAppField /\ [][NextAppDifficulty]_vars

\* The maintenance interval is never cleared, so its callback keeps running
\* every 3 seconds; each of the 500 draws of spawnApple hits a free cell with
\* positive probability while one exists, so a pass that finds the apple
\* absent cannot fail for ever.
AppFieldRestore ==
  /\ AppMaintenance
  /\ app_apple' # null
  /\ UNCHANGED <<cqVars, gVars, app_width, app_rows, app_ticks, app_scoreCap, app_submitted>>

FairSpecAppField == SpecAppField /\ WF_vars(AppFieldRestore)

----------------------------------------------------------------------------
(* part_000 late in a session on hard difficulty: six apples eaten, the six *)
(* obstacles of resetGame still there and six more added on eating, the     *)
(* snake of seven cells moving right along the top row                      *)

capWidth == 8
capRows == 8

\* the six obstacles spawnObstaclesInitial placed, then the six that
\* maybeAddObstacle pushed
app_capObstacles ==
  <<Pos(2, 2), Pos(3, 2), Pos(4, 2), Pos(5, 2), Pos(2, 3), Pos(3, 3),
    Pos(1, 5), Pos(2, 5), Pos(3, 5), Pos(4, 5), Pos(5, 5), Pos(6, 5)>>

InitAppCap ==
  /\ app_FieldRunning(capWidth, capRows, "hard")
  /\ \E x \in 0..(capWidth - 1) :
       app_snake = [i \in 1..7 |-> Pos((x - (i - 1) + capWidth) % capWidth, 0)]
  /\ app_dir = Right
  /\ app_nextDir = Right
  /\ app_score = 60
  /\ app_scoreCap = app_score + 10 * MaxApples
  /\ app_obstacles = app_capObstacles
  /\ app_apple \in app_spawnApple(app_snake, app_obstacles)

NextAppCap ==
  /\ UNCHANGED <<cqVars, gVars, app_width, app_rows, app_scoreCap, app_submitted>>
  /\ \/ (\E d \in Directions : AppKeyArrow(d)) /\ UNCHANGED app_ticks
     \/ AppFieldTick
     \/ AppMaintenance /\ UNCHANGED app_ticks

SpecAppCap == InitAppCap /\ [][NextAppCap]_vars

\* the same session when a maintenance pass is due, obstacles added on eating
\* since the last pass: between 10 and MaxTrimObstacles obstacles in all
MaxTrimObstacles == 15

\* obstacles in the order they were pushed: those of app_capObstacles, then
\* three more
app_trimObstaclePool ==
  app_capObstacles \o <<Pos(6, 6), Pos(1, 1), Pos(6, 1)>>

InitAppTrim ==
  /\ app_FieldRunning(capWidth, capRows, "hard")
  /\ \E x \in 0..(capWidth - 1) :
       app_snake = [i \in 1..7 |-> Pos((x - (i - 1) + capWidth) % capWidth, 0)]
  /\ app_dir = Right
  /\ app_nextDir = Right
  /\ app_score = 60
  /\ app_scoreCap = app_score
  /\ \E from \in 1..3, to \in 10..MaxTrimObstacles :
       app_obstacles = SubSeq(app_trimObstaclePool, from, to)
  /\ app_apple \in app_spawnApple(app_snake, app_obstacles)

NextAppTrim ==
  /\ AppMaintenance
  /\ UNCHANGED <<cqVars, gVars, app_width, app_rows, app_ticks, app_scoreCap,
                 app_submitted>>

SpecAppTrim == InitAppTrim /\ [][NextAppTrim]_vars

----------------------------------------------------------------------------
(* part_000: the page with a localStorage that refuses writes; the only     *)
(* resetGame after the page load is the one of the error handler            *)

InitAppError ==
  /\ variant = "app"
  /\ app_width = width
  /\ app_rows = rows
  /\ app_ticks = 0
  /\ app_scoreCap = 10 * MaxApples
  /\ app_snake = app_InitialSnake
  /\ app_dir = Right
  /\ app_nextDir = Right
  /\ app_apple \in app_spawnApple(app_InitialSnake, <<>>)
  /\ app_difficulty = "medium"
  /\ app_tickRate = 10
  /\ app_obstacles \in
       app_spawnObstaclesInitial(app_InitialSnake, app_apple, app_difficulty)
  /\ app_score = 0
  /\ app_storedHigh = js_missing
  /\ app_storageFails = TRUE
  /\ app_board = js_noBoard
  /\ app_submitted = <<>>
  /\ app_highScore = app_loadHighScore(app_storedHigh)
  /\ app_gameInterval = FALSE
  /\ app_running = FALSE
  /\ app_paused = FALSE
  /\ app_countdownTimer = "none"
  /\ app_leakedTimers = 0
  /\ app_countdownValue = 0
  /\ app_allowInput = TRUE
  /\ app_modalShown = FALSE
  /\ app_startDisabled = FALSE
  /\ app_startedSinceReset = FALSE
  /\ app_idleStartPending = FALSE
  /\ app_firesSinceStart = 0
  /\ CqIdle
  /\ GIdle

NextAppError ==
  /\ UNCHANGED <<cqVars, gVars, app_width, app_rows, app_ticks, app_scoreCap, app_submitted>>
  /\ \/ \E d \in Directions : AppKeyArrow(d)
     \/ AppKeySpace
     \/ AppStartBtn
     \/ AppCountdownFire
     \/ AppTick
     \/ AppMaintenance

SpecAppError == InitAppError /\ [][NextAppError]_vars

----------------------------------------------------------------------------
(* part_000: the leaderboard over several sessions.  A session is taken as  *)
(* one step from the idle game to its game over; the name form is then      *)
(* submitted or cancelled.                                                   *)

\* the final scores of the sessions followed
BoardScores == {10, 20, 30}
\* name submissions followed
MaxSubmissions == 6

\* the page as loaded, with the leaderboard item `item` in localStorage
app_BoardIdle(item) ==
  /\ variant = "app"
  /\ app_width = width
  /\ app_rows = rows
  /\ app_ticks = 0
  /\ app_scoreCap = 0
  /\ app_snake = app_InitialSnake
  /\ app_dir = Right
  /\ app_nextDir = Right
  /\ app_apple \in app_spawnApple(app_InitialSnake, <<>>)
  /\ app_difficulty = "medium"
  /\ app_tickRate = 10
  /\ app_obstacles \in
       app_spawnObstaclesInitial(app_InitialSnake, app_apple, app_difficulty)
  /\ app_score = 0
  /\ app_storedHigh = js_missing
  /\ app_storageFails = FALSE
  /\ app_board = item
  /\ app_submitted = <<>>
  /\ app_highScore = app_loadHighScore(app_storedHigh)
  /\ app_gameInterval = FALSE
  /\ app_running = FALSE
  /\ app_paused = FALSE
  /\ app_countdownTimer = "none"
  /\ app_leakedTimers = 0
  /\ app_countdownValue = 0
  /\ app_allowInput = TRUE
  /\ app_modalShown = FALSE
  /\ app_startDisabled = FALSE
  /\ app_startedSinceReset = FALSE
  /\ app_idleStartPending = FALSE
  /\ app_firesSinceStart = 0
  /\ CqIdle
  /\ GIdle

InitAppBoard == app_BoardIdle(js_noBoard)

\* a session from the start request to its game over, as one step: the
\* countdown has run out, the snake has eaten s / 10 apples, turned down
\* from the top row and met an obstacle; gameOver has run
AppBoardSession(s) ==
  /\ variant = "app"
  /\ ~app_running
  /\ ~app_modalShown
  /\ app_countdownTimer # "active"
  /\ app_leakedTimers = 0
  /\ Len(app_submitted) < MaxSubmissions
  /\ app_score' = s
  /\ app_snake' = [i \in 1..(1 + s \div 10) |->
                    Pos((1 - (i - 1) + app_width) % app_width, 0)]
  /\ app_dir' = Down
  /\ app_nextDir' = Down
  /\ app_obstacles' = <<Pos(1, 1)>>
  /\ app_apple' = Pos(2, 2)
  /\ app_allowInput' = TRUE
  /\ app_tickRate' = app_getTickRateForDifficulty(app_difficulty)
  /\ app_countdownTimer' = "cleared"
  /\ app_countdownValue' = 0
  /\ app_startedSinceReset' = TRUE
  /\ app_idleStartPending' = FALSE
  /\ app_firesSinceStart' = 3
  /\ app_running' = FALSE
  /\ app_paused' = FALSE
  /\ app_gameInterval' = FALSE
  /\ app_highScore' = IF js_gt(s, app_highScore) THEN s ELSE app_highScore
  /\ app_storedHigh' = IF js_gt(s, app_highScore) /\ ~app_storageFails
                        THEN js_item(js_String(s)) ELSE app_storedHigh
  /\ app_modalShown' = TRUE
  /\ UNCHANGED <<variant, app_leakedTimers, app_startDisabled, app_difficulty,
                 app_storageFails, app_board>>

\* sessions, each followed by the name form; the scores submitted are recorded
NextAppBoard ==
  /\ UNCHANGED <<cqVars, gVars, app_width, app_rows, app_ticks, app_scoreCap>>
  /\ \/ (\E s \in BoardScores : AppBoardSession(s)) /\ UNCHANGED app_submitted
     \/ /\ Len(app_submitted) < MaxSubmissions
        /\ AppNameSubmit
        /\ app_submitted' = Append(app_submitted, app_score)
     \/ AppNameCancel /\ UNCHANGED app_submitted

SpecAppBoard == InitAppBoard /\ [][NextAppBoard]_vars

\* name submissions followed when the page is loaded with a leaderboard item
\* of any kind
MaxStoredSubmissions == 2

\* the values of the item 'snake_leaderboard' the page is loaded with: none,
\* '', a text that is not JSON, the JSON texts of an object, a number, a
\* string and null, and arrays of entries
StoredBoards ==
  {js_noBoard, js_boardItem("empty", <<>>), js_boardItem("malformed", <<>>),
   js_boardItem("object", <<>>), js_boardItem("number", <<>>),
   js_boardItem("string", <<>>), js_boardItem("null", <<>>),
   js_boardItem("array", <<>>),
   js_boardItem("array", <<[name |-> "Ann", score |-> <<"2", "0">>],
                           [name |-> "Anonymous", score |-> <<"4", "0">>]>>)}

InitAppStoredBoard == \E item \in StoredBoards : app_BoardIdle(item)

NextAppStoredBoard ==
  /\ NextAppBoard
  /\ AppNameCancel \/ Len(app_submitted) < MaxStoredSubmissions

SpecAppStoredBoard == InitAppStoredBoard /\ [][NextAppStoredBoard]_vars

----------------------------------------------------------------------------
(* part_000: a straight snake on an empty grid, ticks only *)

straightWidth == 10
straightRows == 10
MaxStraightTicks == 100

\* the snake of n cells in a line behind head h, last moved in direction d
app_straightSnake(h, d, n) ==
  [i \in 1..n |-> Pos((h.x - (i - 1) * d.x + app_width * n) % app_width,
                      (h.y - (i - 1) * d.y + app_rows * n) % app_rows)]

\* a running session, no apple, no obstacles, the snake shorter than the grid
\* is wide
InitAppStraight ==
  /\ app_FieldRunning(straightWidth, straightRows, "medium")
  /\ \E h \in app_Cells, d \in Directions, n \in 1..(straightWidth - 1) :
       /\ app_snake = app_straightSnake(h, d, n)
       /\ app_dir = d
       /\ app_nextDir = d
       /\ app_score = 10 * (n - 1)
  /\ app_scoreCap = app_score
  /\ app_apple = null
  /\ app_obstacles = <<>>

\* the tick interval fires; ticks are counted up to MaxStraightTicks
NextAppStraight ==
  /\ AppTick
  /\ app_ticks' = IF app_ticks < MaxStraightTicks THEN app_ticks + 1 ELSE app_ticks
  /\ UNCHANGED <<cqVars, gVars, app_width, app_rows, app_scoreCap, app_submitted>>

SpecAppStraight == InitAppStraight /\ [][NextAppStraight]_vars

----------------------------------------------------------------------------
(* part_000 and localStorage: the first session after the page was loaded  *)
(* with any of a few items under 'snake_high', in a browser whose setItem  *)
(* works or throws (storage full or disabled)                              *)

MaxStoreLen == 2

\* nothing stored, the empty text, "5", "abc", "7x"
StoredItems ==
  {js_missing, js_item(<<>>), js_item(<<"5">>), js_item(<<"a", "b", "c">>),
   js_item(<<"7", "x">>)}

InitAppStore ==
  /\ app_width = width
  /\ app_rows = rows
  /\ app_ticks = 0
  /\ app_scoreCap = 10 * MaxApples
  /\ app_Playing(MaxStoreLen)
  /\ app_storedHigh \in StoredItems
  /\ app_storageFails \in BOOLEAN
  /\ app_board = js_noBoard
  /\ app_submitted = <<>>
  /\ app_highScore = app_loadHighScore(app_storedHigh)

SpecAppStore == InitAppStore /\ [][NextAppPlay]_vars

----------------------------------------------------------------------------
(* game.js: one session followed frame by frame on a canvas of              *)
(* g_fieldCols x g_fieldRows cells: the state after init() and a click on   *)
(* Start, then direction inputs and up to MaxUpdates frames.  The session   *)
(* starts with food of the first type (the types differ in points only).    *)

InitGField ==
  /\ variant = "g"
  /\ g_canvasWidth = g_fieldCols * g_cellSize
  /\ g_canvasHeight = g_fieldRows * g_cellSize
  /\ g_stored = 0
  /\ g_score = 0
  /\ g_highScore = 0
  /\ g_length = g_initialLength
  /\ g_head = g_StartHead
  /\ g_dir = Right
  /\ g_segments = g_StartSegments
  /\ g_food \in {f \in g_spawnFood(g_StartSegments) : f.points = 1}
  /\ g_gameOver = FALSE
  /\ g_paused = FALSE
  /\ g_running = TRUE
  /\ g_pendingDir = null
  /\ g_overlayShown = FALSE
  /\ g_frames = 1
  /\ g_inputSinceReset = FALSE
  /\ g_updates = 0
  /\ g_spawning = FALSE
  /\ AppIdle
  /\ CqIdle

\* a direction input during the session
GFieldSetDirection(n) == GSetDirection(n) /\ UNCHANGED g_updates

\* one of the session's frames
GFieldLoop(k) ==
  /\ g_updates < MaxUpdates
  /\ g_updates' = g_updates + 1
  /\ GLoop(k)

NextGField ==
  /\ variant = "g"
  /\ UNCHANGED <<variant, appVars, cqVars, g_canvasWidth, g_canvasHeight,
                 g_spawning>>
  /\ \/ \E n \in Directions : GFieldSetDirection(n)
     \/ \E k \in 0..g_maxAdvance : GFieldLoop(k)

SpecGField == InitGField /\ [][NextGField]_vars

----------------------------------------------------------------------------
(* game.js: spawnFood followed draw by draw, in the call resetGameState    *)
(* makes at init() on the smallest canvas resizeCanvas gives (280 x 175 px, *)
(* here the nearest whole number of cells)                                  *)

g_spawnCols == 13
g_spawnRows == 8

\* the cell centres spawnFood draws from, with any food type
g_foodDraws ==
  LET margin == g_cellSize
      fcols == (g_canvasWidth - margin * 2) \div g_cellSize
      frows == (g_canvasHeight - margin * 2) \div g_cellSize
  IN  {[x |-> margin + i * g_cellSize + g_unit,
        y |-> margin + j * g_cellSize + g_unit, points |-> p] :
          i \in g_randInt(0, fcols - 1), j \in g_randInt(0, frows - 1),
          p \in g_FoodPoints}

\* resetGameState has seeded the segments and has just called spawnFood
InitGSpawn ==
  /\ variant = "g"
  /\ g_canvasWidth = g_spawnCols * g_cellSize
  /\ g_canvasHeight = g_spawnRows * g_cellSize
  /\ g_stored = 0
  /\ g_score = 0
  /\ g_highScore = 0
  /\ g_length = g_initialLength
  /\ g_head = g_StartHead
  /\ g_dir = Right
  /\ g_segments = g_StartSegments
  /\ g_food = null
  /\ g_spawning = TRUE
  /\ g_gameOver = FALSE
  /\ g_paused = TRUE
  /\ g_running = FALSE
  /\ g_pendingDir = null
  /\ g_overlayShown = FALSE
  /\ g_frames = 0
  /\ g_inputSinceReset = FALSE
  /\ g_updates = 0
  /\ AppIdle
  /\ CqIdle

\* one execution of spawnFood's body: food is assigned the cell drawn, and
\* spawnFood calls itself when that cell is within 0.9 cell of a segment
GSpawnDraw(f) ==
  /\ variant = "g"
  /\ g_spawning
  /\ g_food' = f
  /\ g_spawning' = (\E n \in 1..Len(g_segments) : g_nearFood(g_segments[n], f))
  /\ UNCHANGED <<variant, appVars, cqVars, g_running, g_paused, g_gameOver,
                 g_score, g_highScore, g_stored, g_head, g_dir, g_length,
                 g_segments, g_pendingDir, g_overlayShown, g_frames,
                 g_canvasWidth, g_canvasHeight, g_inputSinceReset, g_updates>>

NextGSpawn == \E f \in g_foodDraws : GSpawnDraw(f)

SpecGSpawn == InitGSpawn /\ [][NextGSpawn]_vars

\* the call runs on: nothing suspends a synchronous function
FairSpecGSpawn == SpecGSpawn /\ WF_vars(NextGSpawn)

----------------------------------------------------------------------------
(* Properties *)

\* C1 (part_000): whatever arrow keys, touch buttons and swipes arrive
\* between two ticks, the direction a tick applies (dir := nextDir) is never
\* the exact negation of the direction the tick before it applied.
C1_TickNeverReverses ==
  [][AppTick => ~(app_dir'.x = -app_dir.x /\ app_dir'.y = -app_dir.y)]_vars

\* a tick has applied Up, a turn to the left was taken since, and the tick
\* interval is about to apply it
C1_Witness ==
  /\ variant = "app" /\ app_gameInterval /\ ~app_paused
  /\ app_dir = Up /\ app_nextDir = Left /\ ~app_allowInput

\* C2 (part_001): a newly registered head cell is never the cell the head
\* was in before the last registered one, i.e. the displacement between two
\* consecutively registered head cells never reverses the one before it.
C2_NoStepBack ==
  [][(cq_headPrevCell' # cq_headPrevCell /\ cq_cameFrom # cq_head)
       => cq_head' # cq_cameFrom]_vars

\* C3 (part_000): at most one countdown interval is scheduled at any time.
C3_OneCountdownTimer == app_ActiveCountdownTimers <= 1

\* C4 (part_000): while the game is paused, no timer callback (tick
\* interval, countdown interval, maintenance interval) moves the snake or
\* clears the paused flag.
C4_TimersKeepPaused ==
  [][(app_running /\ app_paused /\ (AppTick \/ AppCountdownFire \/ AppMaintenance))
       => (app_paused' /\ app_snake' = app_snake)]_vars

\* C5 (part_000): from resetGame until the next start request the game is
\* idle: not running, no tick interval, score 0, the one-cell snake.
C5_IdleUntilStart ==
  ~app_startedSinceReset =>
     /\ ~app_running /\ ~app_gameInterval
     /\ app_score = 0 /\ app_snake = app_InitialSnake

\* C6 (part_000): a start request while the game is over (name modal up,
\* not running) begins no countdown.
C6_NoStartInGameOver ==
  [][(app_modalShown /\ ~app_running /\ (AppKeySpace \/ AppStartBtn))
       => UNCHANGED <<app_countdownTimer, app_countdownValue, app_leakedTimers>>]_vars

\* C7 (part_000): after a start request in Idle, the game enters Running at
\* the third firing of the countdown timer since that request.
C7_RunningAtThirdFire ==
  [][(app_idleStartPending /\ ~app_running /\ app_running')
       => app_firesSinceStart' = 3]_vars

\* C8 (part_000): a direction input (arrow key, touch button, swipe) while
\* the game is not Running leaves nextDir unchanged.
C8_NoInputUnlessRunning ==
  [][(~(app_running /\ ~app_paused)
        /\ \E d \in Directions : AppKeyArrow(d) \/ AppTouchDir(d))
       => app_nextDir' = app_nextDir]_vars

\* C9 (game.js): as long as no direction input has arrived since the last
\* resetGameState, no direction is buffered and the snake heads right.
C9_ResetDiscardsBuffer ==
  ~g_inputSinceReset => (g_pendingDir = null /\ g_dir = Right)

C11_CollisionWinsOverFood ==
  [][(~g_gameOver /\ g_gameOver' /\ g_food # null /\ g_nearFood(g_head', g_food))
       => (g_score' = g_score /\ g_length' = g_length
           /\ g_highScore' = g_highScore)]_vars

\* C12 (part_000): in every state of a started game (Running or Paused) a
\* press of P toggles pause, and in every state in which the game is not
\* running a press of Space starts the countdown, whether or not a direction
\* key was accepted since the last tick.
C12_KeysAlwaysAct ==
  /\ app_running => ENABLED (AppKeyP /\ app_paused' = ~app_paused)
  /\ (~app_running /\ app_ActiveCountdownTimers <= MaxLeaked)
       => ENABLED (AppKeySpace /\ app_countdownValue' = 3
                   /\ app_countdownTimer' = "active")

\* C13 (part_000): a pause request (P key or Pause button) made while the
\* game is already paused leaves it paused.
C13_SecondPauseKeepsPaused ==
  [][(app_running /\ app_paused /\ (AppKeyP \/ AppPauseBtn)) => app_paused']_vars

\* C14 (game.js): at most one loop() callback is scheduled at any time.
C14_OneLoopScheduled == g_frames <= 1

\* C15 (part_000): in every reachable state the high score is at least the
\* current score.
C15_HighScoreFollowsScore == app_highScore >= app_score

\* a text that is an integer literal: an optional sign, then digits only
js_isIntegerText(t) ==
  LET v == IF t # <<>> /\ Head(t) \in {"-", "+"} THEN Tail(t) ELSE t
  IN  v # <<>> /\ \A i \in 1..Len(v) : js_isDigit(v[i])

\* C16 (part_000): while the item stored under 'snake_high' is missing or is
\* not a valid integer, the high score the script loaded from it is 0.
C16_LoadYieldsZero ==
  (~app_storedHigh.present \/ ~js_isIntegerText(app_storedHigh.text))
    => app_highScore = 0

\* C17 (part_000): a tick that ends the session by a collision finishes the
\* game-over transition (the name modal is shown), also when setItem throws.
C17_GameOverCompletes ==
  [][(app_running /\ ~app_running') => app_modalShown']_vars

\* C18 (part_000): with a working localStorage and a stored high score h, the
\* tick that ends a session by a collision with a final score s > h stores s,
\* and a load of the stored item gives s back; no other step writes the item,
\* so the score is written once per session.
C18_NewHighPersisted ==
  [][LET h == app_loadHighScore(app_storedHigh)
         ends == app_running /\ ~app_running' /\ app_modalShown'
     IN  /\ (ends /\ ~app_storageFails /\ h # NaN /\ app_score > h)
              => /\ app_storedHigh' = js_item(js_String(app_score))
                 /\ app_loadHighScore(app_storedHigh') = app_score
         /\ ~ends => app_storedHigh' = app_storedHigh]_vars

\* a session that began with "5" stored has ended with score 10, now stored
C18_Witness ==
  /\ variant = "app" /\ ~app_running /\ app_modalShown
  /\ app_score = 10 /\ app_highScore = 10
  /\ app_storedHigh = js_item(<<"1", "0">>)

\* C19 (part_000): in every reachable state every segment of the snake, the
\* head included, has its coordinates inside the grid [0, width) x [0, rows).
C19_SnakeInsideGrid ==
  \A i \in 1..Len(app_snake) :
    /\ app_snake[i].x \in 0..(app_width - 1)
    /\ app_snake[i].y \in 0..(app_rows - 1)

\* the head has stepped right from the last column to column 0
C19_Witness ==
  /\ variant = "app" /\ app_running /\ Len(app_snake) = 2 /\ app_dir = Right
  /\ app_snake[1].x = 0 /\ app_snake[2].x = app_width - 1
  /\ app_snake[2].y = app_snake[1].y

\* C20 (part_001): in every reachable state every segment of the snake lies
\* inside the grid [0, cols) x [0, rows), the snake initGame builds included,
\* for every grid size resizeCanvas produces.
C20_SnakeInsideGrid ==
  \A i \in 1..Len(cq_snake) :
    /\ cq_snake[i].x \in 0..(cq_gridCols - 1)
    /\ cq_snake[i].y \in 0..(cq_gridRows - 1)

cq_abs(n) == IF n < 0 THEN -n ELSE n

\* C21 (part_001): in every reachable state consecutive segments of the snake
\* are orthogonally adjacent (Manhattan distance 1).
C21_SegmentsAdjacent ==
  \A i \in 1..(Len(cq_snake) - 1) :
    cq_abs(cq_snake[i].x - cq_snake[i + 1].x)
      + cq_abs(cq_snake[i].y - cq_snake[i + 1].y) = 1

\* C22 (part_000): a step that places an apple puts it on a cell with no snake
\* segment and no obstacle, and a step that places obstacles (at reset or on
\* eating) leaves every obstacle on a cell of its own with no snake segment
\* and not the apple.
C22_SpawnsOnFreeCells ==
  [][/\ (app_apple' # null /\ app_apple' # app_apple)
          => /\ app_apple' \notin Range(app_snake')
             /\ app_apple' \notin Range(app_obstacles')
     /\ app_obstacles' # app_obstacles
          => \A i \in 1..Len(app_obstacles') :
               /\ app_obstacles'[i] \notin Range(app_snake')
               /\ app_obstacles'[i] # app_apple'
               /\ \A j \in 1..Len(app_obstacles') :
                    j # i => app_obstacles'[j] # app_obstacles'[i]]_vars

\* three obstacles were placed at reset, the apple was eaten, maybeAddObstacle
\* added a fourth obstacle and spawnApple placed a new apple
C22_Witness ==
  /\ variant = "app" /\ app_score = 10 /\ Len(app_snake) = 2
  /\ Len(app_obstacles) = 4 /\ app_apple # null

\* C23 (part_001): after a step that called spawnFood the food, if present,
\* lies on neither the head nor any segment of the snake.
C23_FoodOffSnake ==
  [][(cq_food' # cq_food /\ cq_food' # null)
       => /\ Pos(cq_food'.x, cq_food'.y) \notin Range(cq_snake')
          /\ Pos(cq_food'.x, cq_food'.y) # cq_head']_vars

\* the interior cells free of snake and obstacles
app_freeInterior ==
  {p \in app_InteriorCells : p \notin Range(app_snake) /\ p \notin Range(app_obstacles)}

\* C24 (part_000): whenever the apple is absent while a free interior cell
\* exists, a later maintenance pass restores an apple (or the free cells run
\* out).
C24_AppleRestored ==
  (app_apple = null /\ app_freeInterior # {})
    ~> (app_apple # null \/ app_freeInterior = {})

\* spawnApple gave up after the apple was eaten; the session goes on
C24_Witness ==
  /\ variant = "app" /\ app_apple = null /\ app_score = 10
  /\ app_running /\ app_gameInterval /\ ~app_modalShown

\* C25 (game.js): every call of spawnFood returns.
C25_SpawnFoodReturns == <>(~g_spawning)

\* C26 (part_000): in every reachable state there are at most 12 obstacles.
C26_ObstaclesCapped == Len(app_obstacles) <= ObstacleCap

\* C27 (part_000): maybeAddObstacle runs on every tick of a running session,
\* whether or not the tick eats the apple: whenever the next tick moves the
\* snake without a collision and an interior cell is free of snake, apple and
\* obstacles, that tick can add an obstacle.
C27_EveryTickMayAddObstacle ==
  LET head == app_nextHead(app_snake, app_nextDir)
      taken == Range(app_snake) \cup Range(app_obstacles) \cup {head, app_apple}
  IN  (/\ variant = "app" /\ app_gameInterval /\ ~app_paused
       /\ ~app_collides(head, app_snake, app_obstacles)
       /\ app_InteriorCells \ taken # {})
        => ENABLED (AppTick /\ Len(app_obstacles') = Len(app_obstacles) + 1)

\* a tick of the session that moves the head onto the apple
app_eatingTick ==
  LET head == app_nextHead(app_snake, app_nextDir)
  IN  /\ app_ticks' = app_ticks + 1
      /\ app_apple # null /\ head = app_apple
      /\ ~app_collides(head, app_snake, app_obstacles)

\* C28 (part_000), as stated: a tick whose new head cell holds the apple adds
\* exactly 10 to the score, grows the snake by the new head alone (the tail
\* stays), and puts a new apple on a cell with no snake segment and no
\* obstacle.
C28_EatingTick ==
  [][app_eatingTick
       => /\ app_score' = app_score + 10
          /\ app_snake' = <<app_apple>> \o app_snake
          /\ app_apple' # null
          /\ app_apple' \notin Range(app_snake')
          /\ app_apple' \notin Range(app_obstacles')]_vars

\* C28 (part_000), amended: a tick whose new head cell holds the apple adds
\* exactly 10 to the score and grows the snake by the new head alone; the
\* apple is then absent or on a cell with no snake segment and no obstacle.
C28_EatingTickAmended ==
  [][app_eatingTick
       => /\ app_score' = app_score + 10
          /\ app_snake' = <<app_apple>> \o app_snake
          /\ \/ app_apple' = null
             \/ /\ app_apple' \notin Range(app_snake')
                /\ app_apple' \notin Range(app_obstacles')]_vars

\* the first tick of the session has eaten the apple and a new one is there
C28_Witness ==
  /\ variant = "app" /\ app_ticks = 1 /\ app_score = 10
  /\ Len(app_snake) = 2 /\ app_snake[2] = app_InitialSnake[1]
  /\ app_apple # null /\ app_apple \notin Range(app_snake)

\* C29 (part_001): an update that registers the food's cell without a
\* collision adds the food's points p to the score and max(1, p) to
\* snakeLength; after every step the snake holds at most snakeLength
\* segments.
C29_EatingUpdate ==
  [][/\ (/\ cq_headPrevCell' # cq_headPrevCell
         /\ cq_food # null /\ cq_head' = Pos(cq_food.x, cq_food.y)
         /\ ~cq_isGameOver')
          => /\ cq_score' = cq_score + cq_food.points
             /\ cq_snakeLength' =
                  cq_snakeLength + (IF cq_food.points > 1 THEN cq_food.points ELSE 1)
     /\ Len(cq_snake') <= cq_snakeLength']_vars

\* food worth 3 points has been eaten: target length 5 + 3, the snake holds
\* the new head cell and the five cells before it
C29_Witness ==
  /\ variant = "cq" /\ cq_score = 3 /\ cq_snakeLength = cq_InitialLength + 3
  /\ Len(cq_snake) = cq_InitialLength + 1 /\ cq_snake[1] = cq_head
  /\ cq_isRunning

\* C30: a change of the difficulty select while the game is running sets the
\* tick rate to the rate of the new difficulty and leaves exactly one tick
\* interval active; snake, direction, score, apple, obstacles and the
\* running and paused flags are unchanged
app_difficultyChanged == app_difficulty' # app_difficulty /\ app_running

C30_DifficultyChangeOnlyRate ==
  [][app_difficultyChanged =>
       /\ app_tickRate' = app_getTickRateForDifficulty(app_difficulty')
       /\ app_gameInterval'
       /\ UNCHANGED <<app_snake, app_dir, app_nextDir, app_score, app_apple,
                      app_obstacles, app_running, app_paused>>]_vars

\* a running session at the easy rate whose three obstacles were laid out
\* for a harder difficulty (easy lays out at most two), after a tick
C30_Witness ==
  /\ app_running /\ ~app_paused /\ app_gameInterval
  /\ app_difficulty = "easy" /\ app_tickRate = 6
  /\ app_score = 0 /\ Len(app_obstacles) = 3
  /\ app_ticks = 1

\* C31: on the wrap-around grid with no apple and no obstacles, a straight
\* snake shorter than the grid is wide that keeps its direction is never
\* stopped by game over: after every tick the game is running and the snake
\* is the same straight line, one cell further
C31_StraightNeverGameOver ==
  /\ app_running
  /\ app_gameInterval
  /\ ~app_modalShown
  /\ app_apple = null
  /\ app_obstacles = <<>>
  /\ app_score = 10 * (Len(app_snake) - 1)
  /\ app_snake = app_straightSnake(app_snake[1], app_dir, Len(app_snake))

\* the length-5 snake heading right after 100 ticks
C31_Witness ==
  /\ app_ticks = MaxStraightTicks
  /\ app_running
  /\ Len(app_snake) = 5
  /\ app_dir = Right
  /\ app_width = straightWidth

\* the tick that is about to fail: the head runs into the snake or an
\* obstacle with a score above the high score, and setItem throws
app_tickThrows ==
  /\ variant = "app"
  /\ app_gameInterval
  /\ ~app_paused
  /\ app_collides(app_nextHead(app_snake, app_nextDir), app_snake, app_obstacles)
  /\ js_gt(app_score, app_highScore)
  /\ app_storageFails

\* C32 (first half): the tick in which the error is raised ends in the idle
\* state of resetGame: not running, not paused, no tick interval, score 0,
\* the one-cell snake heading right
C32_ErrorResets ==
  [][(app_tickThrows /\ AppTick) =>
       /\ ~app_running' /\ ~app_paused' /\ ~app_gameInterval'
       /\ app_score' = 0
       /\ app_snake' = app_InitialSnake
       /\ app_dir' = Right /\ app_nextDir' = Right]_vars

\* C32: from the reset of the error handler until the next start request the
\* game is idle and no tick interval is scheduled, so no tick executes
C32_NoTickUntilStart ==
  (~app_startedSinceReset /\ app_highScore # 0) =>
     /\ ~app_running
     /\ ~app_gameInterval
     /\ ~ENABLED AppTick

\* index of a highest element of the non-empty sequence q
app_maxIndex(q) == CHOOSE i \in 1..Len(q) : \A k \in 1..Len(q) : q[k] <= q[i]

\* the n highest numbers of the sequence q, highest first
RECURSIVE app_topScores(_, _)
app_topScores(q, n) ==
  IF n = 0 \/ q = <<>> THEN <<>>
  ELSE LET i == app_maxIndex(q)
       IN  <<q[i]>> \o app_topScores(SubSeq(q, 1, i - 1) \o SubSeq(q, i + 1, Len(q)), n - 1)

\* the scores of the stored leaderboard as loadLeaderboard returns them
app_boardScores ==
  LET list == app_loadLeaderboard(app_board).items
  IN  [i \in 1..Len(list) |-> list[i].score]

\* C33: the stored leaderboard has at most 5 entries, sorted by score in
\* non-increasing order, and their scores are the 5 highest scores submitted
\* so far
C33_LeaderboardTopFive ==
  /\ app_loadLeaderboard(app_board).kind = "array"
  /\ Len(app_boardScores) <= 5
  /\ \A i \in 1..(Len(app_boardScores) - 1) : app_boardScores[i] >= app_boardScores[i + 1]
  /\ app_boardScores = app_topScores(app_submitted, 5)

\* six submissions, the first with the lowest score and the last with the
\* highest: the sixth entry has pushed an earlier one out
C33_Witness ==
  /\ Len(app_submitted) = 6
  /\ app_submitted[1] = 10
  /\ app_submitted[6] = 30
  /\ Len(app_boardScores) = 5
  /\ app_boardScores[1] = 30
  /\ ~app_modalShown

\* C34: whatever the stored leaderboard item is, loadLeaderboard returns a
\* list, renderLeaderboard runs to its end, and a submitted name form stores
\* the score and closes the modal
C34_LoadYieldsList ==
  /\ app_loadLeaderboard(app_board).kind = "array"
  /\ app_renderCompletes(app_board)
  /\ (app_modalShown /\ Len(app_submitted) < MaxStoredSubmissions)
        => ENABLED (NextAppStoredBoard /\ AppNameSubmit /\ ~app_modalShown')

\* C34 for the stored values loadLeaderboard does handle: no item, the empty
\* text, a text JSON.parse rejects, an array
C34_LoadYieldsList_handled ==
  app_board.kind \in {"missing", "empty", "malformed", "array"} => C34_LoadYieldsList

\* the elements of the sequence q are pairwise distinct
app_distinct(q) == \A i, k \in 1..Len(q) : i # k => q[i] # q[k]

\* C35: between ticks the snake's cells are pairwise distinct, the obstacles
\* are pairwise distinct, no obstacle lies on a snake cell, and the apple,
\* when there is one, lies on no snake cell and on no obstacle
C35_CellsDistinct ==
  /\ app_distinct(app_snake)
  /\ app_distinct(app_obstacles)
  /\ Range(app_obstacles) \cap Range(app_snake) = {}
  /\ app_apple # null => app_apple \notin Range(app_snake) \cup Range(app_obstacles)

\* after two ticks with an apple eaten: a snake of two cells or more, an
\* obstacle next to the head, an apple on the grid
C35_Witness ==
  /\ app_running
  /\ app_ticks = MaxFieldTicks
  /\ Len(app_snake) >= 2
  /\ app_apple # null
  /\ \E d \in Directions : app_nextHead(app_snake, d) \in Range(app_obstacles)

\* C36: the snake has one cell and one more for every 10 points of the
\* score, in every state: while running, paused, after game over, after a
\* restart and after a reset
C36_LengthFollowsScore ==
  variant = "app" => Len(app_snake) = 1 + app_score \div 10 /\ app_score % 10 = 0

\* the game over of a session in which an apple was eaten
C36_Witness ==
  /\ app_modalShown
  /\ ~app_running
  /\ app_score = 10
  /\ Len(app_snake) = 2

\* a reset of part_001: the Reset button, or a start request after game over
cq_resets == CqResetBtn \/ (cq_isGameOver /\ (CqKeySpace \/ CqStartBtn))

\* C37: a reset leaves score 0, snakeLength 5 and speedMultiplier 1
C37_ResetRestoresSpeed ==
  [][cq_resets =>
       /\ cq_score' = 0
       /\ cq_snakeLength' = cq_InitialLength
       /\ cq_speedMultiplier' = cq_speedOne]_vars

\* C37 without the speed: a reset leaves score 0 and snakeLength 5
C37_ResetRestoresScore ==
  [][cq_resets => cq_score' = 0 /\ cq_snakeLength' = cq_InitialLength]_vars

\* C38: a maintenance pass that finds more than 12 obstacles leaves the 12
\* added last, in their order, the oldest ones removed; with 12 or fewer it
\* leaves the list as it is
C38_MaintenanceTrimsOldest ==
  [][AppMaintenance =>
       LET n == Len(app_obstacles)
       IN  IF n > ObstacleCap
           THEN /\ Len(app_obstacles') = ObstacleCap
                /\ \A i \in 1..ObstacleCap :
                     app_obstacles'[i] = app_obstacles[n - ObstacleCap + i]
           ELSE app_obstacles' = app_obstacles]_vars

\* after the pass that found the 15 obstacles of the pool: the three oldest
\* are gone, the other 12 are there in their order
C38_Witness ==
  /\ Len(app_obstacles) = ObstacleCap
  /\ app_obstacles = SubSeq(app_trimObstaclePool, 4, MaxTrimObstacles)
  /\ app_apple # null

====
